---- MODULE Spec2Model ----
(***************************************************************************)
(* State-machine model of the streaming analytics core:                    *)
(*   - AlertEngine          (src/src/alerts/rule_engine.py)                *)
(*   - normalize_tick / normalize_from_ndjson                              *)
(*                          (src/src/ingestion/data_normalizer.py)         *)
(*   - BarBuilder           (src/src/processing/ohlcv.py)                  *)
(*   - TimeSeriesResampler  (src/src/processing/resampler.py)              *)
(*   - MemoryStore          (src/src/storage/memory_store.py)              *)
(*                                                                         *)
(* Conventions.  Optional[T] is a sequence: <<>> is None, <<x>> is x.      *)
(* Alert-engine timestamps are whole seconds; z-scores are in tenths       *)
(* (2.1 is 21), so "z > 2.0" is "z > 20".  Tick timestamps are             *)
(* milliseconds since the Unix epoch.  Prices and quantities are integers; *)
(* a vwap is the exact fraction num/den.  A dict is a function whose       *)
(* DOMAIN is the set of keys present.                                      *)
(***************************************************************************)
EXTENDS Integers, Sequences, FiniteSets, TLC

VARIABLES
    \* ---- AlertEngine ----
    rules,            \* self._rules
    history,          \* self._history (deque, maxlen = max_history)
    max_history,      \* the deque's maxlen
    last_triggered,   \* self._last_triggered : rule_key -> timestamp
    triggered,        \* the list the last check_zscore call returned
    emitted,          \* history variable: every alert check_zscore ever
                      \* returned, with the rule and cooldown key it fired for
    \* ---- driver of scenario S4 ----
    s4_i,             \* number of stream values fed so far
    s4_sym,           \* the symbol the scenario uses
    s4_t0,            \* timestamp of the first value
    s4_out,           \* the list returned by each call, in call order
    \* ---- TimeSeriesResampler ----
    builders,         \* self._builders : symbol -> BarBuilder
    current_bar_time, \* self._current_bar_time : symbol -> bar time (ms)
    completed_bars,   \* self._completed_bars : symbol -> list of OHLCVBar
    last_bar,         \* what the last add_tick call returned (Optional bar)
    fed,              \* history variable: the ticks passed to add_tick, in
                      \* call order
    \* ---- MemoryStore ----
    max_ticks,        \* self._max_ticks
    max_bars,         \* self._max_bars
    data,             \* self._data : symbol -> SymbolData
    tick_count,       \* self._tick_count
    last_update,      \* self._last_update (Optional timestamp)
    ret,              \* what the last read call of the sequential
                      \* specification returned
    added,            \* history variable: per symbol, the ticks passed to
                      \* add_tick since the symbol was last cleared
    \* ---- threads calling one MemoryStore ----
    lock,             \* self._lock: None when free, else the holding thread
    pc,               \* per thread, where it is in the method it called
    call,             \* per thread, the method it called and its argument
    result,           \* per reader thread, the object its last call returned
    seen,             \* history variable: per reader thread, what its call
                      \* would have returned at each instant since the call
    \* ---- GlobalState (app.py) ----
    gs_tick_count,    \* self.tick_count
    gs_last_update,   \* self.last_update: None, or the instant of the last
                      \* add_tick ("now")
    gs_resamplers,    \* the keys of self.resamplers; the resampler of the
                      \* one timeframe of the model is the resampler above
    bar_callbacks,    \* self._callbacks of that resampler
    \* ---- load_ndjson_data (app.py) ----
    ld_file,          \* the lines of the file
    ld_pos,           \* the line the loop reads next
    ld_ticks,         \* the local list ticks
    ld_status,        \* "idle", "loading", "error" (in the except clause)
                      \* or "returned"
    \* ---- threads calling one AlertEngine ----
    eng_lock,         \* self._lock: None when free, else the holding thread
    eng_stack,        \* per thread, its call stack of engine methods; a
                      \* frame holds the method, its arguments and locals
    eng_callbacks,    \* self._callbacks: what each subscriber does
    eng_calls,        \* number of calls made by the threads so far
    \* ---- BinanceWebSocketClient: the reconnect loops, with time ----
    bo_running,       \* self._running
    bo_now,           \* the clock, in seconds since connect() was called
    bo_pc,            \* per symbol, where its _connect_symbol task is
    bo_delay,         \* per symbol, the task's local variable delay
    bo_wake,          \* per symbol, when its asyncio.sleep(delay) ends
    bo_streak,        \* history variable: per symbol, the number of backoff
                      \* sleeps begun since delay was last set to its
                      \* initial value
    bo_frames,        \* history variable: per symbol, the frames received
                      \* on its current (or last) connection
    bo_attempt_at,    \* history variable: per symbol, when its last
                      \* connection attempt began (Optional)
    bo_last_wait,     \* history variable: per symbol, the length of its
                      \* last backoff sleep (Optional)
    \* ---- start_websocket / stop_websocket and SyncWebSocketClient ----
    app_ws_client,    \* _global_state.ws_client (Optional client)
    app_is_running,   \* _global_state.is_running
    ws_created,       \* number of SyncWebSocketClient objects made so far
    ws_started,       \* per client, self._started
    ws_running,       \* per client, self._client._running
    ws_loop,          \* per client, self._loop: "none", or the loop's
                      \* state "created", "running" or "closed"
    ws_thread,        \* per client, where its run_loop thread is
    ws_task,          \* per client, where its _connect_symbol task is
    ws_queue,         \* per client, the frames its socket holds unread
    ws_stopped,       \* history variable: per client, stop() has returned
    ws_dispatched,    \* history variable: per client, the number of ticks
                      \* it passed to its on_tick callback
    src_count,        \* number of trades the exchange has produced
    \* ---- one connection of BinanceWebSocketClient and its frames ----
    hm_callbacks,     \* self._callbacks: what each on_tick callback does
    hm_conn,          \* "open" while the task is in `async for message
                      \* in ws`, "closed" once it has left the connection
    hm_tick_count,    \* self._tick_count
    hm_frames,        \* number of frames the connection has yielded
    hm_last,          \* history variable: the last frame (Optional)
    hm_invoked,       \* history variable: the callbacks invoked for the
                      \* last frame, in call order
    \* ---- on_bar subscribers of the resampler ----
    al_notified,      \* history variable: every call of an on_alert
                      \* subscriber, in call order: the subscriber's
                      \* position and the alert passed
    al_since_clear,   \* history variable: the alerts emitted since the
                      \* history was last cleared, in order
    al_last_call,     \* history variable: the last call made to the
                      \* engine, with its arguments
    \* ---- replay: the engine after clear_all beside a fresh engine ----
    rp_calls,         \* number of checks made before clear_all
    rp_cleared,       \* clear_all has been called
    rp_fresh,         \* the history, cooldown map and last result of a
                      \* fresh AlertEngine() given the checks made since
                      \* clear_all
    rp_replayed,      \* number of checks made since clear_all
    \* ---- scenario S5: a second run that replays the recorded ticks ----
    demo_loaded,      \* load_demo_data has run in the second run
    demo_data,        \* store._data of the second run
    \* ---- _get_bar_timestamp of a resampler of any timeframe ----
    bt_timeframe,     \* self.timeframe
    bt_tick_time,     \* the argument tick_time, in ms since the epoch
    bt_bar_time,      \* what the last call returned (Optional, ms)
    bt_prev_bar_time, \* history variable: what the call before returned
    \* ---- the analytics functions ----
    an_call,          \* the function called and its arguments
    an_result,        \* what the call did: None while it has not run,
                      \* else its outcome
    \* ---- a resampler whose callers also read and clear it ----
    snap_log,         \* history variable: the calls made on the
                      \* resampler, in order
    snap_result,      \* what the last get_current_bar call returned
    rs_notified       \* history variable: every call of an on_bar
                      \* subscriber, in call order: the subscriber's
                      \* position, the bar passed, and whether the bar was
                      \* in the completed list at the call

alertVars == <<rules, history, max_history, last_triggered, triggered, emitted>>
s4Vars    == <<s4_i, s4_sym, s4_t0, s4_out>>
rsVars    == <<builders, current_bar_time, completed_bars, last_bar, fed>>
thVars    == <<lock, pc, call, result, seen>>
storeVars == <<max_ticks, max_bars, data, tick_count, last_update, ret, added,
               thVars>>
gsVars    == <<gs_tick_count, gs_last_update, gs_resamplers, bar_callbacks>>
ldVars    == <<ld_file, ld_pos, ld_ticks, ld_status>>
engVars   == <<eng_lock, eng_stack, eng_callbacks, eng_calls>>
boVars    == <<bo_running, bo_now, bo_pc, bo_delay, bo_wake, bo_streak,
               bo_frames, bo_attempt_at, bo_last_wait>>
wsVars    == <<app_ws_client, app_is_running, ws_created, ws_started,
               ws_running, ws_loop, ws_thread, ws_task, ws_queue,
               ws_stopped, ws_dispatched, src_count>>
hmVars    == <<hm_callbacks, hm_conn, hm_tick_count, hm_frames, hm_last,
               hm_invoked>>
subVars   == <<rs_notified>>
alsVars   == <<al_notified, al_since_clear, al_last_call>>
rpVars    == <<rp_calls, rp_cleared, rp_fresh, rp_replayed>>
s5Vars    == <<demo_loaded, demo_data>>
btVars    == <<bt_timeframe, bt_tick_time, bt_bar_time, bt_prev_bar_time>>
anVars    == <<an_call, an_result>>
snapVars  == <<snap_log, snap_result>>
extVars   == <<gsVars, ldVars, engVars, boVars, wsVars, hmVars, subVars,
               alsVars, rpVars, s5Vars, btVars, anVars, snapVars>>
extNotGs  == <<ldVars, engVars, boVars, wsVars, hmVars, subVars, alsVars,
               rpVars, s5Vars, btVars, anVars, snapVars>>
extNotLd  == <<gsVars, engVars, boVars, wsVars, hmVars, subVars, alsVars,
               rpVars, s5Vars, btVars, anVars, snapVars>>
extNotEng == <<gsVars, ldVars, boVars, wsVars, hmVars, subVars, alsVars,
               rpVars, s5Vars, btVars, anVars, snapVars>>
extNotBo  == <<gsVars, ldVars, engVars, wsVars, hmVars, subVars, alsVars,
               rpVars, s5Vars, btVars, anVars, snapVars>>
extNotWs  == <<ldVars, engVars, boVars, hmVars, subVars, alsVars, rpVars,
               s5Vars, btVars, anVars, snapVars>>
extNotHm  == <<gsVars, ldVars, engVars, boVars, wsVars, subVars, alsVars,
               rpVars, s5Vars, btVars, anVars, snapVars>>
extNotSub == <<ldVars, engVars, boVars, wsVars, hmVars, alsVars, rpVars,
               s5Vars, btVars, anVars, snapVars>>
extNotAls == <<gsVars, ldVars, boVars, wsVars, hmVars, subVars, rpVars,
               s5Vars, btVars, anVars, snapVars>>
extNotRp  == <<gsVars, ldVars, engVars, boVars, wsVars, hmVars, subVars,
               alsVars, s5Vars, btVars, anVars, snapVars>>
extNotS5  == <<ldVars, engVars, boVars, wsVars, hmVars, subVars, alsVars,
               rpVars, btVars, anVars, snapVars>>
extNotBt  == <<gsVars, ldVars, engVars, boVars, wsVars, hmVars, subVars,
               alsVars, rpVars, s5Vars, anVars, snapVars>>
extNotAn  == <<gsVars, ldVars, engVars, boVars, wsVars, hmVars, subVars,
               alsVars, rpVars, s5Vars, btVars, snapVars>>
extNotSnap == <<gsVars, ldVars, engVars, boVars, wsVars, hmVars, subVars,
                alsVars, rpVars, s5Vars, btVars, anVars>>
vars      == <<alertVars, s4Vars, rsVars, storeVars, extVars>>

-----------------------------------------------------------------------------
(* Python helpers *)

None == <<>>
Some(x) == <<x>>

\* `x or default` for an Optional[str]: None and "" are both falsy.
StrOr(opt, default) == IF opt = None \/ opt = Some("") THEN default ELSE opt[1]

\* {}
EmptyDict == [k \in {} |-> 0]

\* dict[key] = value
DictSet(d, key, value) ==
    [k \in DOMAIN d \cup {key} |-> IF k = key THEN value ELSE d[k]]

PyMax(a, b) == IF b > a THEN b ELSE a
PyMin(a, b) == IF b < a THEN b ELSE a

\* str.upper() on the symbol strings of the model.
Upper(str) ==
    CASE str = "btc" -> "BTC"
      [] str = "eth" -> "ETH"
      [] OTHER -> str

\* float(x): x is a number or a text, a text is [ok, val] where ok tells
\* whether it parses as a number; a text that does not parse raises
\* ValueError.
Num(v) == [ok |-> TRUE, val |-> v]
NotANumber == [ok |-> FALSE, val |-> 0]

\* dict without key
DictDel(d, key) == [k \in DOMAIN d \ {key} |-> d[k]]

\* list[start:]
PySliceFrom(list, start) ==
    LET len == Len(list)
        first == IF start < 0
                    THEN (IF len + start > 0 THEN len + start ELSE 0)
                    ELSE (IF start < len THEN start ELSE len)
    IN  SubSeq(list, first + 1, len)

\* Mutant of DequeAppend: at capacity the new item is dropped and the
\* oldest kept.
DequeAppendKeepOldest(dq, x, maxlen) ==
    IF Len(dq) >= maxlen THEN dq ELSE Append(dq, x)

\* collections.deque(maxlen=n).append(x): the oldest element is discarded
\* when the deque is full.
DequeAppend(dq, x, maxlen) ==
    IF maxlen = 0 THEN <<>>
    ELSE IF Len(dq) >= maxlen THEN Append(Tail(dq), x)
    ELSE Append(dq, x)

\* GlobalState.__init__, and a resampler without subscribers
GsInit ==
    /\ gs_tick_count = 0
    /\ gs_last_update = None
    /\ gs_resamplers = {}
    /\ bar_callbacks = <<>>

\* load_ndjson_data has not been called.
LdIdle ==
    /\ ld_file = <<>>
    /\ ld_pos = 1
    /\ ld_ticks = <<>>
    /\ ld_status = "idle"

\* The threads of the concurrent alert-engine specification
EngThreads == {"a", "b"}

\* No thread has called the engine and nobody has subscribed.
EngIdle ==
    /\ eng_lock = None
    /\ eng_stack = [t \in EngThreads |-> <<>>]
    /\ eng_callbacks = <<>>
    /\ eng_calls = 0

\* BinanceWebSocketClient.__init__ defaults
ReconnectDelay == 1
MaxReconnectDelay == 30
ReconnectMultiplier == 2

\* The symbols connect() is called with
BoSymbols == {"btcusdt", "ethusdt"}

\* BinanceWebSocketClient(): connect() has not been called, no task exists.
BoInit ==
    /\ bo_running = FALSE
    /\ bo_now = 0
    /\ bo_pc = [s \in BoSymbols |-> "none"]
    /\ bo_delay = [s \in BoSymbols |-> ReconnectDelay]
    /\ bo_wake = [s \in BoSymbols |-> 0]
    /\ bo_streak = [s \in BoSymbols |-> 0]
    /\ bo_frames = [s \in BoSymbols |-> 0]
    /\ bo_attempt_at = [s \in BoSymbols |-> None]
    /\ bo_last_wait = [s \in BoSymbols |-> None]

\* The SyncWebSocketClient objects start_websocket can make
MaxClients == 2
Clients == 1..MaxClients

\* start_websocket has not been called: no client exists yet.
WsIdle ==
    /\ app_ws_client = None
    /\ app_is_running = FALSE
    /\ ws_created = 0
    /\ ws_started = [c \in Clients |-> FALSE]
    /\ ws_running = [c \in Clients |-> FALSE]
    /\ ws_loop = [c \in Clients |-> "none"]
    /\ ws_thread = [c \in Clients |-> "none"]
    /\ ws_task = [c \in Clients |-> "none"]
    /\ ws_queue = [c \in Clients |-> <<>>]
    /\ ws_stopped = [c \in Clients |-> FALSE]
    /\ ws_dispatched = [c \in Clients |-> 0]
    /\ src_count = 0

\* A client without callbacks whose connection has just been established
HmInit ==
    /\ hm_callbacks = <<>>
    /\ hm_conn = "open"
    /\ hm_tick_count = 0
    /\ hm_frames = 0
    /\ hm_last = None
    /\ hm_invoked = <<>>

\* No call has been made on the resampler by way of its readers.
SnapIdle == snap_log = <<>> /\ snap_result = None

\* No analytics function has been called.
AnIdle == an_call = [fn |-> "none"] /\ an_result = None

\* The resampler of the alignment specification is the model's "1S"
\* resampler and _get_bar_timestamp has not been called.
BtIdle ==
    /\ bt_timeframe = "1S"
    /\ bt_tick_time = 0
    /\ bt_bar_time = None
    /\ bt_prev_bar_time = None

\* No check has been made; the fresh engine is as AlertEngine() makes it.
RpIdle ==
    /\ rp_calls = 0
    /\ rp_cleared = FALSE
    /\ rp_fresh = [history |-> <<>>, last_triggered |-> EmptyDict,
                   triggered |-> <<>>]
    /\ rp_replayed = 0

\* No on_bar subscriber has been called.
SubIdle == rs_notified = <<>>

\* The components outside the specification at hand are idle.
ExtIdleExceptBt ==
    /\ GsInit /\ LdIdle /\ EngIdle /\ BoInit /\ WsIdle /\ HmInit /\ SubIdle
    /\ al_notified = <<>>
    /\ al_since_clear = <<>>
    /\ al_last_call = [op |-> "none"]
    /\ RpIdle
    /\ demo_loaded = FALSE
    /\ demo_data = EmptyDict
ExtIdle == ExtIdleExceptBt /\ BtIdle /\ AnIdle /\ SnapIdle

-----------------------------------------------------------------------------
(* AlertEngine *)

DefaultMaxHistory == 100
DefaultCooldown == 60

\* AlertEngine.DEFAULT_RULES; condition is (op, threshold) with the
\* threshold in tenths.
DEFAULT_RULES ==
    << [name |-> "zscore_high", alert_type |-> "zscore_high",
        op |-> "gt", threshold |-> 20,
        message_template |-> "Z-score exceeded upper threshold",
        severity |-> "warning", cooldown_seconds |-> 60],
       [name |-> "zscore_low", alert_type |-> "zscore_low",
        op |-> "lt", threshold |-> -20,
        message_template |-> "Z-score exceeded lower threshold",
        severity |-> "warning", cooldown_seconds |-> 60],
       [name |-> "zscore_critical_high", alert_type |-> "zscore_high",
        op |-> "gt", threshold |-> 30,
        message_template |-> "Z-score critically high",
        severity |-> "critical", cooldown_seconds |-> 120],
       [name |-> "zscore_critical_low", alert_type |-> "zscore_low",
        op |-> "lt", threshold |-> -30,
        message_template |-> "Z-score critically low",
        severity |-> "critical", cooldown_seconds |-> 120] >>

\* Mutant of Condition: the thresholds are inclusive.
ConditionInclusive(rule, z) ==
    IF rule.op = "gt" THEN z >= rule.threshold ELSE z <= rule.threshold

\* rule.condition(zscore)
Condition(rule, z) ==
    IF rule.op = "gt" THEN z > rule.threshold ELSE z < rule.threshold

\* rule_key = f"{rule.name}_{symbol or 'all'}"
RuleKey(rule, symbol) == rule.name \o "_" \o StrOr(symbol, "all")

\* Mutant of InCooldown: the cooldown test uses the engine's default
\* cooldown (as check_custom does) instead of the rule's own.
InCooldownDefault(lt, rule_key, timestamp, rule) ==
    /\ rule_key \in DOMAIN lt
    /\ timestamp - lt[rule_key] < DefaultCooldown

\* Mutant of InCooldown: an alert exactly cooldown_seconds after the last
\* one is still suppressed (elapsed <= cooldown).
InCooldownInclusive(lt, rule_key, timestamp, rule) ==
    /\ rule_key \in DOMAIN lt
    /\ timestamp - lt[rule_key] <= rule.cooldown_seconds

\* last_time = self._last_triggered.get(rule_key)
\* if last_time: elapsed = (timestamp - last_time).total_seconds()
\*               if elapsed < rule.cooldown_seconds: continue
\* (a datetime is always truthy)
InCooldown(lt, rule_key, timestamp, rule) ==
    /\ rule_key \in DOMAIN lt
    /\ timestamp - lt[rule_key] < rule.cooldown_seconds

MakeAlert(rule, z, symbol, timestamp) ==
    [timestamp |-> timestamp, alert_type |-> rule.alert_type,
     message |-> <<rule.message_template, z>>, severity |-> rule.severity,
     value |-> z, symbol |-> symbol]

\* The loop of check_zscore over self._rules from index i on; st carries
\* the engine state the loop body reads and writes.
RECURSIVE CheckRules(_, _, _, _, _, _)
CheckRules(rs, i, z, symbol, timestamp, st) ==
    IF i > Len(rs) THEN st
    ELSE LET rule == rs[i]
             rule_key == RuleKey(rule, symbol)
             alert == MakeAlert(rule, z, symbol, timestamp)
         IN  IF rule.alert_type \notin {"zscore_high", "zscore_low"}
                THEN CheckRules(rs, i + 1, z, symbol, timestamp, st)
             ELSE IF ~Condition(rule, z)
                THEN CheckRules(rs, i + 1, z, symbol, timestamp, st)
             ELSE IF InCooldown(st.last_triggered, rule_key, timestamp, rule)
                THEN CheckRules(rs, i + 1, z, symbol, timestamp, st)
             ELSE CheckRules(rs, i + 1, z, symbol, timestamp,
                    [history |-> DequeAppend(st.history, alert, st.max_history),
                     max_history |-> st.max_history,
                     last_triggered |->
                         DictSet(st.last_triggered, rule_key, timestamp),
                     triggered |-> Append(st.triggered, alert),
                     fired |-> Append(st.fired,
                         [rule |-> rule.name, key |-> rule_key,
                          cooldown |-> rule.cooldown_seconds,
                          alert |-> alert])])

\* AlertEngine.check_zscore(zscore, symbol, timestamp)
CheckZscore(z, symbol, timestamp) ==
    LET st == CheckRules(rules, 1, z, symbol, timestamp,
                  [history |-> history, max_history |-> max_history,
                   last_triggered |-> last_triggered,
                   triggered |-> <<>>, fired |-> <<>>])
    IN  /\ history' = st.history
        /\ last_triggered' = st.last_triggered
        /\ triggered' = st.triggered
        /\ emitted' = emitted \o st.fired
        /\ UNCHANGED <<rules, max_history>>

\* Mutant of ClearHistory: the cooldown map is emptied too.
ClearHistoryAndCooldowns ==
    /\ history' = <<>>
    /\ last_triggered' = EmptyDict
    /\ UNCHANGED <<rules, max_history, triggered, emitted>>

\* AlertEngine.clear_history()
ClearHistory ==
    /\ history' = <<>>
    /\ UNCHANGED <<rules, max_history, last_triggered, triggered, emitted>>

\* AlertEngine.__init__()
AlertInit ==
    /\ rules = DEFAULT_RULES
    /\ history = <<>>
    /\ max_history = DefaultMaxHistory
    /\ last_triggered = EmptyDict
    /\ triggered = <<>>
    /\ emitted = <<>>

-----------------------------------------------------------------------------
(* Tick normalisation: src/src/ingestion/data_normalizer.py *)

Tick(symbol, timestamp, price, quantity) ==
    [symbol |-> symbol, timestamp |-> timestamp,
     price |-> price, quantity |-> quantity]

\* raw_message.get("T") or raw_message.get("E"): a missing or zero T is
\* falsy.
TradeTimeMs(raw) == IF raw.T # None /\ raw.T # Some(0) THEN raw.T ELSE raw.E

\* raw_message.get(key, 0) followed by float(): a missing field is 0.
FloatOrZero(field) == IF field = None THEN Num(0) ELSE field[1]

\* normalize_tick(raw_message) -> Optional[Tick].  raw has the optional
\* fields e, T, E, s, p, q.
normalize_tick(raw) ==
    LET trade_time_ms == TradeTimeMs(raw)
        symbol == IF raw.s = None THEN "" ELSE Upper(raw.s[1])
        price == FloatOrZero(raw.p)
        quantity == FloatOrZero(raw.q)
    IN  IF raw.e # Some("trade") THEN None
        ELSE IF trade_time_ms = None THEN None
        ELSE IF ~price.ok \/ ~quantity.ok THEN None
        ELSE IF symbol = "" \/ price.val <= 0 THEN None
        ELSE Some(Tick(symbol, trade_time_ms[1], price.val, quantity.val))

\* record.get("size", record.get("quantity", 0))
SizeOrQuantity(record) ==
    IF record.size # None THEN record.size[1]
    ELSE IF record.quantity # None THEN record.quantity[1]
    ELSE Num(0)

\* normalize_from_ndjson(record) -> Optional[Tick].  record has the
\* optional fields symbol, ts, price, size, quantity; ts is a text that
\* parses as an ISO-8601 instant (its value in ms) or does not.
normalize_from_ndjson(record) ==
    LET quantity == SizeOrQuantity(record)
    IN  IF record.ts = None \/ record.symbol = None \/ record.price = None
            THEN None
        ELSE IF ~record.ts[1].ok \/ ~record.price[1].ok \/ ~quantity.ok
            THEN None
        ELSE Some(Tick(Upper(record.symbol[1]), record.ts[1].val,
                       record.price[1].val, quantity.val))

-----------------------------------------------------------------------------
(* BarBuilder and OHLCVBar: src/src/processing/ohlcv.py *)

\* float("inf"): greater than every price of the model.
PosInf == 2147483647

\* BarBuilder(symbol=symbol)
NewBarBuilder(symbol) ==
    [symbol |-> symbol, bar_start |-> None, open |-> 0, high |-> 0,
     low |-> PosInf, close |-> 0, volume |-> 0, vwap_numerator |-> 0,
     trade_count |-> 0]

\* Mutant of BuilderAddTick: trade_count is set, not incremented.
BuilderAddTickNoCount(b, tick) ==
    LET b1 == IF b.bar_start = None
                 THEN [b EXCEPT !.bar_start = Some(tick.timestamp),
                                !.open = tick.price,
                                !.high = tick.price,
                                !.low = tick.price]
                 ELSE b
    IN  [b1 EXCEPT !.high = PyMax(b1.high, tick.price),
                   !.low = PyMin(b1.low, tick.price),
                   !.close = tick.price,
                   !.volume = b1.volume + tick.quantity,
                   !.vwap_numerator =
                       b1.vwap_numerator + tick.price * tick.quantity,
                   !.trade_count = 1]

\* BarBuilder.add_tick(tick)
BuilderAddTick(b, tick) ==
    LET b1 == IF b.bar_start = None
                 THEN [b EXCEPT !.bar_start = Some(tick.timestamp),
                                !.open = tick.price,
                                !.high = tick.price,
                                !.low = tick.price]
                 ELSE b
    IN  [b1 EXCEPT !.high = PyMax(b1.high, tick.price),
                   !.low = PyMin(b1.low, tick.price),
                   !.close = tick.price,
                   !.volume = b1.volume + tick.quantity,
                   !.vwap_numerator =
                       b1.vwap_numerator + tick.price * tick.quantity,
                   !.trade_count = b1.trade_count + 1]

\* Mutant of Vwap: the closing price, whatever the volume.
VwapOfClose(b) == [num |-> b.close, den |-> 1]

\* vwap = self.vwap_numerator / self.volume if self.volume > 0 else self.close
\* as the exact fraction num/den, den > 0.
Vwap(b) ==
    IF b.volume > 0 THEN [num |-> b.vwap_numerator, den |-> b.volume]
    ELSE [num |-> b.close, den |-> 1]

\* BarBuilder.build(bar_timestamp) -> Optional[OHLCVBar]
BuilderBuild(b, bar_timestamp) ==
    IF b.trade_count = 0 THEN None
    ELSE Some([symbol |-> b.symbol, timestamp |-> bar_timestamp,
               open |-> b.open, high |-> b.high, low |-> b.low,
               close |-> b.close, volume |-> b.volume, vwap |-> Vwap(b),
               trade_count |-> b.trade_count])

\* Mutant of BuilderReset: the counters survive the reset.
BuilderResetKeepCount(b) ==
    [NewBarBuilder(b.symbol) EXCEPT !.trade_count = b.trade_count,
                                    !.volume = b.volume]

\* BarBuilder.reset()
BuilderReset(b) == NewBarBuilder(b.symbol)

-----------------------------------------------------------------------------
(* TimeSeriesResampler: src/src/processing/resampler.py *)

\* TimeSeriesResampler.TIMEFRAME_SECONDS.get(timeframe, 60)
IntervalSeconds(timeframe) ==
    CASE timeframe = "1S" -> 1
      [] timeframe = "1T" -> 60
      [] timeframe = "5T" -> 300
      [] timeframe = "15T" -> 900
      [] timeframe = "1H" -> 3600
      [] OTHER -> 60

\* The resampler of the model is TimeSeriesResampler("1S").
ResamplerTimeframe == "1S"

\* Mutant of GetBarTimestamp: a tick exactly on a boundary is given the
\* bar that ends there.
GetBarTimestampBoundaryInclusive(tick_time, interval_seconds) ==
    ((tick_time - 1) \div (1000 * interval_seconds))
        * (1000 * interval_seconds)

\* _get_bar_timestamp(tick_time): tick_time and the result in ms since the
\* epoch; (total_seconds // interval) * interval floors.
GetBarTimestamp(tick_time, interval_seconds) ==
    (tick_time \div (1000 * interval_seconds)) * (1000 * interval_seconds)

Align(tick_time) ==
    GetBarTimestamp(tick_time, IntervalSeconds(ResamplerTimeframe))

\* self._completed_bars[symbol] of a defaultdict(list), read without
\* inserting.
CompletedOf(cb, symbol) == IF symbol \in DOMAIN cb THEN cb[symbol] ELSE <<>>

\* Mutant of RollsOver: an out-of-order tick closes the current bar too.
RollsOverOnAnyChange(bar_time, current) == bar_time # current

\* Mutant of RollsOver: a tick of the current interval closes the bar too.
RollsOverAlways(bar_time, current) == bar_time >= current

\* if bar_time > self._current_bar_time.get(symbol, bar_time)
RollsOver(bar_time, current) == bar_time > current

\* Mutant of ResamplerAddTick: one clock for all symbols, a rollover sets
\* current_bar_time of every symbol.
ResamplerAddTickSharedClock(tick) ==
    LET symbol == tick.symbol
        bar_time == Align(tick.timestamp)
        isNew == symbol \notin DOMAIN builders
        builders1 == IF isNew
                        THEN DictSet(builders, symbol, NewBarBuilder(symbol))
                        ELSE builders
        cbt1 == IF isNew THEN DictSet(current_bar_time, symbol, bar_time)
                ELSE current_bar_time
        current == IF symbol \in DOMAIN cbt1 THEN cbt1[symbol] ELSE bar_time
        rolls == RollsOver(bar_time, current)
        completed_bar == IF rolls
                            THEN BuilderBuild(builders1[symbol], cbt1[symbol])
                            ELSE None
        builder2 == IF rolls THEN BuilderReset(builders1[symbol])
                    ELSE builders1[symbol]
    IN  /\ completed_bars' =
              IF completed_bar # None
                 THEN DictSet(completed_bars, symbol,
                        Append(CompletedOf(completed_bars, symbol),
                               completed_bar[1]))
                 ELSE completed_bars
        /\ current_bar_time' =
              IF rolls THEN [k \in DOMAIN cbt1 |-> bar_time] ELSE cbt1
        /\ builders' = DictSet(builders1, symbol, BuilderAddTick(builder2, tick))
        /\ last_bar' = completed_bar
        /\ fed' = Append(fed, tick)

\* TimeSeriesResampler.add_tick(tick)
ResamplerAddTick(tick) ==
    LET symbol == tick.symbol
        bar_time == Align(tick.timestamp)
        isNew == symbol \notin DOMAIN builders
        builders1 == IF isNew
                        THEN DictSet(builders, symbol, NewBarBuilder(symbol))
                        ELSE builders
        cbt1 == IF isNew THEN DictSet(current_bar_time, symbol, bar_time)
                ELSE current_bar_time
        current == IF symbol \in DOMAIN cbt1 THEN cbt1[symbol] ELSE bar_time
        rolls == RollsOver(bar_time, current)
        completed_bar == IF rolls
                            THEN BuilderBuild(builders1[symbol], cbt1[symbol])
                            ELSE None
        builder2 == IF rolls THEN BuilderReset(builders1[symbol])
                    ELSE builders1[symbol]
    IN  /\ completed_bars' =
              IF completed_bar # None
                 THEN DictSet(completed_bars, symbol,
                        Append(CompletedOf(completed_bars, symbol),
                               completed_bar[1]))
                 ELSE completed_bars
        /\ current_bar_time' =
              IF rolls THEN DictSet(cbt1, symbol, bar_time) ELSE cbt1
        /\ builders' = DictSet(builders1, symbol, BuilderAddTick(builder2, tick))
        /\ last_bar' = completed_bar
        /\ fed' = Append(fed, tick)

\* Mutant of GetCurrentBar: the bar is labelled with the time of its first
\* tick.
GetCurrentBarLabelledByFirstTick(symbol) ==
    IF Upper(symbol) \in DOMAIN builders
          /\ Upper(symbol) \in DOMAIN current_bar_time
       THEN BuilderBuild(builders[Upper(symbol)],
                         IF builders[Upper(symbol)].bar_start = None THEN 0
                         ELSE builders[Upper(symbol)].bar_start[1])
       ELSE None

\* TimeSeriesResampler.get_current_bar(symbol)
GetCurrentBar(symbol) ==
    IF Upper(symbol) \in DOMAIN builders
          /\ Upper(symbol) \in DOMAIN current_bar_time
       THEN BuilderBuild(builders[Upper(symbol)],
                         current_bar_time[Upper(symbol)])
       ELSE None

\* TimeSeriesResampler.__init__(timeframe)
ResamplerInit ==
    /\ builders = EmptyDict
    /\ current_bar_time = EmptyDict
    /\ completed_bars = EmptyDict
    /\ last_bar = None
    /\ fed = <<>>

-----------------------------------------------------------------------------
(* MemoryStore and SymbolData: src/src/storage/memory_store.py *)

\* maxlen of the deques SymbolData creates by default
DefaultTicksMaxlen == 100000
DefaultBarsMaxlen == 10000

\* SymbolData(symbol=symbol)
NewSymbolData(symbol) ==
    [symbol |-> symbol, ticks |-> <<>>, ticks_maxlen |-> DefaultTicksMaxlen,
     bars |-> EmptyDict]

\* deque(maxlen=maxlen)
NewDeque(maxlen) == [items |-> <<>>, maxlen |-> maxlen]

\* add_tick, lines 79-81: a symbol seen first by add_tick gets a tick deque
\* of maxlen self._max_ticks.
EnsureSymbolForTick(d, symbol, maxTicks) ==
    IF symbol \notin DOMAIN d
       THEN DictSet(d, symbol,
                [NewSymbolData(symbol) EXCEPT !.ticks_maxlen = maxTicks])
       ELSE d

\* add_bar, lines 90-91: a symbol seen first by add_bar gets a default
\* SymbolData.
EnsureSymbolForBar(d, symbol) ==
    IF symbol \notin DOMAIN d THEN DictSet(d, symbol, NewSymbolData(symbol))
    ELSE d

\* SymbolData.add_tick(tick)
SymbolDataAddTick(sd, tick) ==
    [sd EXCEPT !.ticks = DequeAppend(sd.ticks, tick, sd.ticks_maxlen)]

\* add_bar, lines 92-93, then SymbolData.add_bar(timeframe, bar)
SymbolDataAddBar(sd, timeframe, bar, maxBars) ==
    LET bars1 == IF timeframe \notin DOMAIN sd.bars
                    THEN DictSet(sd.bars, timeframe, NewDeque(maxBars))
                    ELSE sd.bars
        bars2 == IF timeframe \notin DOMAIN bars1
                    THEN DictSet(bars1, timeframe, NewDeque(DefaultBarsMaxlen))
                    ELSE bars1
        dq == bars2[timeframe]
    IN  [sd EXCEPT !.bars = DictSet(bars2, timeframe,
            [dq EXCEPT !.items = DequeAppend(dq.items, bar, dq.maxlen)])]

\* The dict self._data after add_tick(tick)
DataAfterAddTick(d, tick, maxTicks) ==
    LET symbol == Upper(tick.symbol)
        d1 == EnsureSymbolForTick(d, symbol, maxTicks)
    IN  DictSet(d1, symbol, SymbolDataAddTick(d1[symbol], tick))

\* The dict self._data after add_bar(bar, timeframe)
DataAfterAddBar(d, bar, timeframe, maxBars) ==
    LET symbol == Upper(bar.symbol)
        d1 == EnsureSymbolForBar(d, symbol)
    IN  DictSet(d1, symbol,
                SymbolDataAddBar(d1[symbol], timeframe, bar, maxBars))

\* list(self.ticks) when n is None, else list(self.ticks)[-n:]
LastItems(list, n) == IF n = None THEN list ELSE PySliceFrom(list, 0 - n[1])

\* MemoryStore.get_ticks(symbol, n) on the dict d
GetTicksOf(d, symbol, n) ==
    IF Upper(symbol) \notin DOMAIN d THEN <<>>
    ELSE LastItems(d[Upper(symbol)].ticks, n)

\* MemoryStore.get_bars(symbol, timeframe, n) on the dict d
GetBarsOf(d, symbol, timeframe, n) ==
    IF Upper(symbol) \notin DOMAIN d THEN <<>>
    ELSE IF timeframe \notin DOMAIN d[Upper(symbol)].bars THEN <<>>
    ELSE LastItems(d[Upper(symbol)].bars[timeframe].items, n)

\* MemoryStore.symbols, as the set of the keys
SymbolsOf(d) == DOMAIN d

\* MemoryStore.bar_count() without arguments
BarCountOf(d) ==
    [sym \in DOMAIN d |->
        [tf \in DOMAIN d[sym].bars |-> Len(d[sym].bars[tf].items)]]

\* MemoryStore.add_tick(tick)
StoreAddTick(tick) ==
    /\ data' = DataAfterAddTick(data, tick, max_ticks)
    /\ tick_count' = tick_count + 1
    /\ last_update' = Some(tick.timestamp)
    /\ added' = DictSet(added, Upper(tick.symbol),
                   Append(IF Upper(tick.symbol) \in DOMAIN added
                             THEN added[Upper(tick.symbol)] ELSE <<>>, tick))
    /\ UNCHANGED <<max_ticks, max_bars, ret>>

\* MemoryStore.add_bar(bar, timeframe)
StoreAddBar(bar, timeframe) ==
    /\ data' = DataAfterAddBar(data, bar, timeframe, max_bars)
    /\ UNCHANGED <<max_ticks, max_bars, tick_count, last_update, ret, added>>

\* MemoryStore.clear(symbol): a None or empty symbol clears everything.
StoreClear(symbol) ==
    /\ IF symbol # None /\ symbol # Some("")
          THEN /\ data' = DictDel(data, Upper(symbol[1]))
               /\ added' = DictDel(added, Upper(symbol[1]))
               /\ UNCHANGED tick_count
          ELSE /\ data' = EmptyDict
               /\ added' = EmptyDict
               /\ tick_count' = 0
    /\ UNCHANGED <<max_ticks, max_bars, last_update, ret>>

\* MemoryStore.get_ticks(symbol, n)
StoreGetTicks(symbol, n) ==
    /\ ret' = [op |-> "get_ticks", value |-> GetTicksOf(data, symbol, n)]
    /\ UNCHANGED <<max_ticks, max_bars, data, tick_count, last_update, added>>

\* MemoryStore.get_bars(symbol, timeframe, n)
StoreGetBars(symbol, timeframe, n) ==
    /\ ret' = [op |-> "get_bars",
               value |-> GetBarsOf(data, symbol, timeframe, n)]
    /\ UNCHANGED <<max_ticks, max_bars, data, tick_count, last_update, added>>

\* MemoryStore.__init__(max_ticks, max_bars)
StoreInit(maxTicks, maxBars) ==
    /\ max_ticks = maxTicks
    /\ max_bars = maxBars
    /\ data = EmptyDict
    /\ tick_count = 0
    /\ last_update = None
    /\ ret = [op |-> "none", value |-> <<>>]
    /\ added = EmptyDict

\* The threads of the concurrent specification
Writers == {"w1", "w2"}
Readers == {"r1"}
Threads == Writers \cup Readers

\* No thread has called the store yet.
ThreadsInit ==
    /\ lock = None
    /\ pc = [t \in Threads |-> "idle"]
    /\ call = [t \in Threads |-> [op |-> "none"]]
    /\ result = [t \in Readers |-> None]
    /\ seen = [t \in Readers |-> {}]

\* The store is idle outside its own specifications.
StoreIdle == StoreInit(DefaultTicksMaxlen, DefaultBarsMaxlen) /\ ThreadsInit

-----------------------------------------------------------------------------
(* Inputs of the alert-engine specification *)

MaxTimeSteps == 4
TimeStep == 30
MaxEmitted == 3

ZValues == {0, 25, 35, -25}
AlertSymbols == {None, Some("BTC")}
AlertTimes == {k * TimeStep : k \in 0..MaxTimeSteps}

\* The scenario driver is idle outside SpecS4.
S4Idle == s4_i = 0 /\ s4_sym = None /\ s4_t0 = 0 /\ s4_out = <<>>

AlertCheck ==
    /\ Len(emitted) < MaxEmitted
    /\ \E z \in ZValues, symbol \in AlertSymbols, timestamp \in AlertTimes :
           CheckZscore(z, symbol, timestamp)
    /\ UNCHANGED <<s4Vars, rsVars, storeVars, extVars>>

AlertClearHistory ==
    /\ ClearHistory
    /\ UNCHANGED <<s4Vars, rsVars, storeVars, extVars>>

InitAlert == AlertInit /\ S4Idle /\ ResamplerInit /\ StoreIdle /\ ExtIdle
NextAlert == AlertCheck \/ AlertClearHistory
SpecAlert == InitAlert /\ [][NextAlert]_vars

\* emitted[i] and emitted[j] are consecutive alerts of one rule and key.
ConsecutiveEmitted(i, j) ==
    /\ i < j
    /\ emitted[i].rule = emitted[j].rule
    /\ emitted[i].key = emitted[j].key
    /\ \A k \in (i + 1)..(j - 1) :
           ~(emitted[k].rule = emitted[i].rule /\ emitted[k].key = emitted[i].key)

\* C1: any two consecutive alerts check_zscore emits for one rule R and one
\* cooldown key K are at least R.cooldown_seconds apart, whatever the z
\* values, symbols and timestamps of the calls and whatever clear_history
\* calls come between them.
C1_Cooldown ==
    \A i \in 1..Len(emitted), j \in 1..Len(emitted) :
        ConsecutiveEmitted(i, j) =>
            emitted[j].alert.timestamp - emitted[i].alert.timestamp
                >= emitted[i].cooldown

\* Two consecutive alerts of a 120 s rule exactly 120 s apart, with the
\* history cleared since the first one.
C1_Witness ==
    \E i \in 1..Len(emitted), j \in 1..Len(emitted) :
        /\ ConsecutiveEmitted(i, j)
        /\ emitted[i].cooldown = 120
        /\ emitted[j].alert.timestamp - emitted[i].alert.timestamp = 120
        /\ Len(history) = 1

-----------------------------------------------------------------------------
(* Scenario S4: a fixed z-score stream fed to a fresh engine *)

MaxBase == 2

S4Stream == <<0, 18, 21, 25, 26, 3, -24>>
S4Symbols == {None, Some("BTC"), Some("ETH")}

S4Feed ==
    /\ s4_i < Len(S4Stream)
    /\ CheckZscore(S4Stream[s4_i + 1], s4_sym, s4_t0 + 30 * s4_i)
    /\ s4_i' = s4_i + 1
    /\ s4_out' = Append(s4_out, triggered')
    /\ UNCHANGED <<s4_sym, s4_t0, rsVars, storeVars, extVars>>

S4ClearHistory ==
    /\ history # <<>>
    /\ ClearHistory
    /\ UNCHANGED <<s4Vars, rsVars, storeVars, extVars>>

InitS4 ==
    /\ AlertInit
    /\ s4_i = 0
    /\ s4_sym \in S4Symbols
    /\ s4_t0 \in 0..MaxBase
    /\ s4_out = <<>>
    /\ ResamplerInit
    /\ StoreIdle
    /\ ExtIdle
NextS4 == S4Feed \/ S4ClearHistory
SpecS4 == InitS4 /\ [][NextS4]_vars

\* What the caller sees of a returned list: severity, type, value and
\* time since the first call, per alert.
S4Seen(list) ==
    [n \in 1..Len(list) |->
        <<list[n].severity, list[n].alert_type, list[n].value,
          list[n].timestamp - s4_t0>>]

\* The returns the scenario states: one alert at 60 s and one at 180 s.
S4Stated ==
    << <<>>, <<>>, << <<"warning", "zscore_high", 21, 60>> >>, <<>>, <<>>,
       <<>>, << <<"warning", "zscore_low", -24, 180>> >> >>

\* The returns of the code: the call at 120 s is exactly one cooldown after
\* the alert at 60 s, and fires.
S4Actual ==
    << <<>>, <<>>, << <<"warning", "zscore_high", 21, 60>> >>, <<>>,
       << <<"warning", "zscore_high", 26, 120>> >>,
       <<>>, << <<"warning", "zscore_low", -24, 180>> >> >>

\* C2 as stated: the stream emits WARNING z>2 at 60 s, nothing at 90 s and
\* 120 s, never a CRITICAL alert, and WARNING z<-2 at 180 s.
C2_AsStated ==
    \A k \in 1..Len(s4_out) : S4Seen(s4_out[k]) = S4Stated[k]

\* C2 amended: the stream emits WARNING z>2 at 60 s, nothing at 90 s,
\* WARNING z>2 again at 120 s (60 s elapsed is not less than the 60 s
\* cooldown), never a CRITICAL alert, and WARNING z<-2 at 180 s; every
\* other call returns nothing.
C2_Amended ==
    /\ Len(s4_out) = s4_i
    /\ \A k \in 1..Len(s4_out) : S4Seen(s4_out[k]) = S4Actual[k]
    /\ \A n \in 1..Len(emitted) : emitted[n].alert.severity # "critical"

\* The whole stream has been fed.
C2_Witness == s4_i = Len(S4Stream) /\ Len(emitted) = 3

-----------------------------------------------------------------------------
(* Tick ingestion into one resampler: live messages and replayed records
   are normalised and every accepted tick is passed to add_tick *)

MaxTickSteps == 3
TickStepMs == 400
MaxFed == 3

TickTimes == {k * TickStepMs : k \in 1..MaxTickSteps}

LiveMsg(e, T, E, sym, price, qty) ==
    [e |-> e, T |-> T, E |-> E, s |-> sym, p |-> price, q |-> qty]

\* Price and quantity texts of the well-formed live trades: a positive
\* quantity, a negative one and a missing one.
LivePriceQty ==
    { <<Num(1), Some(Num(2))>>, <<Num(2), Some(Num(-1))>>, <<Num(2), None>> }

LiveMessages ==
    { LiveMsg(Some("trade"), Some(t), None, Some("BTC"), Some(pq[1]), pq[2]) :
          t \in TickTimes, pq \in LivePriceQty }
    \cup
    { LiveMsg(Some("depthUpdate"), Some(TickStepMs), None, Some("BTC"),
              Some(Num(1)), Some(Num(2))),
      LiveMsg(Some("trade"), None, None, Some("BTC"),
              Some(Num(1)), Some(Num(2))),
      LiveMsg(Some("trade"), Some(TickStepMs), None, None,
              Some(Num(1)), Some(Num(2))),
      LiveMsg(Some("trade"), Some(TickStepMs), None, Some("BTC"),
              Some(Num(0)), Some(Num(2))),
      LiveMsg(Some("trade"), Some(TickStepMs), None, Some("BTC"),
              Some(NotANumber), Some(Num(2))) }

ReplayRec(sym, ts, price, size, qty) ==
    [symbol |-> sym, ts |-> ts, price |-> price, size |-> size,
     quantity |-> qty]

ReplayRecords ==
    { ReplayRec(Some("eth"), Some(Num(TickStepMs)), Some(Num(1)),
                Some(Num(2)), None),
      ReplayRec(Some("btc"), Some(Num(TickStepMs)), Some(Num(0)),
                None, Some(Num(2))),
      ReplayRec(Some("btc"), Some(NotANumber), Some(Num(1)),
                Some(Num(2)), None),
      ReplayRec(Some("btc"), Some(Num(TickStepMs)), None,
                Some(Num(2)), None) }

\* The alert engine is idle outside its own specifications.
AlertIdle == AlertInit

\* on_tick of the live path: a message that normalises to a tick is fed to
\* the resampler, any other is dropped.
FeedLive ==
    /\ Len(fed) < MaxFed
    /\ \E raw \in LiveMessages :
          LET tick == normalize_tick(raw)
          IN  IF tick = None THEN UNCHANGED rsVars
              ELSE ResamplerAddTick(tick[1])
    /\ UNCHANGED <<alertVars, s4Vars, storeVars, extVars>>

\* Replay: a record that normalises to a tick is fed to the resampler, any
\* other is skipped.
FeedReplay ==
    /\ Len(fed) < MaxFed
    /\ \E record \in ReplayRecords :
          LET tick == normalize_from_ndjson(record)
          IN  IF tick = None THEN UNCHANGED rsVars
              ELSE ResamplerAddTick(tick[1])
    /\ UNCHANGED <<alertVars, s4Vars, storeVars, extVars>>

InitResampler ==
    ResamplerInit /\ AlertIdle /\ S4Idle /\ StoreIdle /\ ExtIdle
NextResampler == FeedLive \/ FeedReplay
SpecResampler == InitResampler /\ [][NextResampler]_vars

\* An add_tick call happened in this step; LastFed is its tick.
FedStep == Len(fed') = Len(fed) + 1
LastFed == fed[Len(fed)]

\* The add_tick call of this step got a tick of a known symbol whose
\* aligned bar time is earlier than current_bar_time of the symbol.
OutOfOrderStep ==
    /\ FedStep
    /\ LET tick == fed'[Len(fed')]
       IN  /\ tick.symbol \in DOMAIN current_bar_time
           /\ Align(tick.timestamp) < current_bar_time[tick.symbol]

\* What an out-of-order call leaves alone: no bar is returned, and
\* current_bar_time and the completed lists stay as they are.
OutOfOrderFrame ==
    /\ last_bar' = None
    /\ current_bar_time' = current_bar_time
    /\ completed_bars' = completed_bars

BarWellFormed(bar) ==
    /\ bar.low <= bar.open /\ bar.open <= bar.high
    /\ bar.low <= bar.close /\ bar.close <= bar.high
    /\ bar.low * bar.vwap.den <= bar.vwap.num
    /\ bar.vwap.num <= bar.high * bar.vwap.den
    /\ bar.trade_count >= 1

\* C4: every bar the resampler builds (returned by add_tick, stored in the
\* completed list, or returned by get_current_bar) has low <= open <= high,
\* low <= close <= high, low <= vwap <= high and trade_count >= 1, for
\* every sequence of ticks the two normalisers accept.
C4_BarInvariant ==
    /\ last_bar # None => BarWellFormed(last_bar[1])
    /\ \A sym \in DOMAIN completed_bars :
          \A n \in 1..Len(completed_bars[sym]) :
              BarWellFormed(completed_bars[sym][n])
    /\ \A sym \in DOMAIN builders :
          GetCurrentBar(sym) # None => BarWellFormed(GetCurrentBar(sym)[1])

\* Indices of the ticks of symbol sym among the first k fed.
FedOf(sym, k) == {n \in 1..k : fed[n].symbol = sym}

\* The ticks of sym among the first k fed arrive in non-decreasing
\* aligned-time order.
InOrder(sym, k) ==
    \A m \in FedOf(sym, k), n \in FedOf(sym, k) :
        m < n => Align(fed[m].timestamp) <= Align(fed[n].timestamp)

RECURSIVE SumQuantity(_)
SumQuantity(idx) ==
    IF idx = {} THEN 0
    ELSE LET n == CHOOSE x \in idx : TRUE
         IN  fed[n].quantity + SumQuantity(idx \ {n})

\* Ticks i < j of one symbol and one interval, then a tick k of a later
\* interval, the symbol's ticks up to k being in order.
SameBarThenLater(i, j, k) ==
    /\ i < j /\ j < k
    /\ fed[i].symbol = fed[j].symbol /\ fed[j].symbol = fed[k].symbol
    /\ Align(fed[i].timestamp) = Align(fed[j].timestamp)
    /\ Align(fed[k].timestamp) > Align(fed[i].timestamp)
    /\ InOrder(fed[i].symbol, k)

\* The completed bars of sym labelled b that count every tick of interval
\* b fed before index k (trade_count and volume).
BarsHolding(sym, b, k) ==
    LET bars == CompletedOf(completed_bars, sym)
        members == {n \in FedOf(sym, k) : Align(fed[n].timestamp) = b}
    IN  {n \in 1..Len(bars) :
            /\ bars[n].timestamp = b
            /\ bars[n].trade_count = Cardinality(members)
            /\ bars[n].volume = SumQuantity(members)}

\* C5: two ticks of one symbol with the same aligned time, followed by a
\* tick of a greater aligned time, with no tick of a greater aligned time
\* between them and no tick out of order: exactly one completed bar holds
\* both (its trade_count and volume count both), and no other completed bar
\* carries that interval's label.
C5_SameBar ==
    \A i \in 1..Len(fed), j \in 1..Len(fed), k \in 1..Len(fed) :
        SameBarThenLater(i, j, k) =>
            LET sym == fed[i].symbol
                b == Align(fed[i].timestamp)
                bars == CompletedOf(completed_bars, sym)
            IN  /\ Cardinality(BarsHolding(sym, b, k)) = 1
                /\ Cardinality({n \in 1..Len(bars) : bars[n].timestamp = b}) = 1

\* Two ticks of one interval and a later tick have been fed, and the bar of
\* the interval counts two trades.
C5_Witness ==
    \E i \in 1..Len(fed), j \in 1..Len(fed), k \in 1..Len(fed) :
        /\ SameBarThenLater(i, j, k)
        /\ \E n \in BarsHolding(fed[i].symbol, Align(fed[i].timestamp), k) :
              completed_bars[fed[i].symbol][n].trade_count = 2

\* seq1 is seq2 or seq2 without its last element.
GrowsByAtMostOne(seq1, seq2) ==
    /\ Len(seq2) \in {Len(seq1), Len(seq1) + 1}
    /\ SubSeq(seq2, 1, Len(seq1)) = seq1

\* What every add_tick call keeps of the claim: each completed bar of the
\* tick's symbol is older than some tick of the symbol already fed; a
\* bar the call emits is labelled with an interval earlier than the tick's
\* and is the bar get_current_bar showed before the call, so the tick is
\* not counted in it; emitted bars never change.
EmittedOnlyByLaterTick ==
    LET tick == fed'[Len(fed')]
        sym == tick.symbol
        before == CompletedOf(completed_bars, sym)
        after == CompletedOf(completed_bars', sym)
    IN  /\ \A n \in 1..Len(after) :
              \E m \in 1..Len(fed') :
                  /\ fed'[m].symbol = sym
                  /\ Align(fed'[m].timestamp) > after[n].timestamp
        /\ last_bar' # None =>
              /\ last_bar'[1].timestamp < Align(tick.timestamp)
              /\ last_bar' = GetCurrentBar(sym)
              /\ after = Append(before, last_bar'[1])
        /\ last_bar' = None => after = before
        /\ GrowsByAtMostOne(before, after)
        /\ \A other \in DOMAIN completed_bars :
              other # sym => completed_bars'[other] = completed_bars[other]

\* The tick of this call does not belong to the interval of a bar of its
\* symbol that was completed before the call.
NoTickAfterItsBar ==
    LET tick == fed'[Len(fed')]
        before == CompletedOf(completed_bars, tick.symbol)
    IN  \A n \in 1..Len(before) :
            Align(tick.timestamp) # before[n].timestamp

\* The ticks of the symbol fed so far, this call's included, are in
\* non-decreasing aligned-time order.
InOrderAfterStep ==
    LET tick == fed'[Len(fed')]
    IN  \A m \in 1..Len(fed'), n \in 1..Len(fed') :
            (m < n /\ fed'[m].symbol = tick.symbol
                   /\ fed'[n].symbol = tick.symbol)
                => Align(fed'[m].timestamp) <= Align(fed'[n].timestamp)

-----------------------------------------------------------------------------
(* One caller at a time on a MemoryStore(StoreMaxTicks, StoreMaxBars) *)

StoreMaxTicks == 2
StoreMaxBars == 2
MaxTickCount == 3
MaxStoreTime == 2
MaxCount == 2

StoreTicks ==
    {Tick("BTC", t * 1000, t, 1) : t \in 1..MaxStoreTime}
        \cup {Tick("ETH", 1000, 1, 1)}

\* The bar a resampler builds from one tick.
BarOf(tick) ==
    BuilderBuild(BuilderAddTick(NewBarBuilder(tick.symbol), tick),
                 Align(tick.timestamp))[1]
StoreBars == {BarOf(tick) : tick \in StoreTicks}
StoreTimeframes == {"1S"}
ReadSymbols == {"btc", "SOL"}
ReadCounts == {None} \cup {Some(n) : n \in 0..MaxCount}

SeqAddTick ==
    /\ tick_count < MaxTickCount
    /\ \E tick \in StoreTicks : StoreAddTick(tick)
    /\ UNCHANGED <<alertVars, s4Vars, rsVars, thVars, extVars>>

SeqAddBar ==
    /\ \E bar \in StoreBars, tf \in StoreTimeframes : StoreAddBar(bar, tf)
    /\ UNCHANGED <<alertVars, s4Vars, rsVars, thVars, extVars>>

SeqClear ==
    /\ \E symbol \in {None, Some("btc"), Some("ETH")} : StoreClear(symbol)
    /\ UNCHANGED <<alertVars, s4Vars, rsVars, thVars, extVars>>

SeqGetTicks ==
    /\ \E symbol \in ReadSymbols, n \in ReadCounts : StoreGetTicks(symbol, n)
    /\ UNCHANGED <<alertVars, s4Vars, rsVars, thVars, extVars>>

SeqGetBars ==
    /\ \E symbol \in ReadSymbols, tf \in StoreTimeframes, n \in ReadCounts :
          StoreGetBars(symbol, tf, n)
    /\ UNCHANGED <<alertVars, s4Vars, rsVars, thVars, extVars>>

InitStore ==
    /\ StoreInit(StoreMaxTicks, StoreMaxBars)
    /\ ThreadsInit
    /\ AlertIdle /\ S4Idle /\ ResamplerInit /\ ExtIdle
NextStore == SeqAddTick \/ SeqAddBar \/ SeqClear \/ SeqGetTicks \/ SeqGetBars
SpecStore == InitStore /\ [][NextStore]_vars

\* The last n items of a list (all of them when it has fewer).
LastN(list, n) ==
    SubSeq(list, (IF n < Len(list) THEN Len(list) - n ELSE 0) + 1, Len(list))

\* C7: after N add_tick calls for symbol s, get_ticks(s) returns exactly the
\* most recent min(N, max_ticks) of those ticks, oldest first.
C7_RecentTicks ==
    \A sym \in DOMAIN added :
        GetTicksOf(data, sym, None) = LastN(added[sym], max_ticks)

\* C8: each symbol holds at most max_ticks ticks and each (symbol,
\* timeframe) at most max_bars bars, after any sequence of add_tick,
\* add_bar and clear calls.
C8_Bounded ==
    \A sym \in DOMAIN data :
        /\ Len(data[sym].ticks) <= max_ticks
        /\ \A tf \in DOMAIN data[sym].bars :
              Len(data[sym].bars[tf].items) <= max_bars

\* C9: for every count n >= 0, get_ticks(sym, n) and get_bars(sym, tf, n)
\* return at most n items, namely the n most recently appended ones in
\* stored order (all when fewer exist), and an empty list for an unknown
\* symbol.
C9_AtMostN ==
    \A symbol \in ReadSymbols, n \in 0..MaxCount :
        LET ticks == IF Upper(symbol) \in DOMAIN data
                        THEN data[Upper(symbol)].ticks ELSE <<>>
        IN  /\ Len(GetTicksOf(data, symbol, Some(n))) <= n
            /\ GetTicksOf(data, symbol, Some(n)) = LastN(ticks, n)
            /\ \A tf \in StoreTimeframes :
                  LET bars == IF /\ Upper(symbol) \in DOMAIN data
                                 /\ tf \in DOMAIN data[Upper(symbol)].bars
                                 THEN data[Upper(symbol)].bars[tf].items
                                 ELSE <<>>
                  IN  /\ Len(GetBarsOf(data, symbol, tf, Some(n))) <= n
                      /\ GetBarsOf(data, symbol, tf, Some(n)) = LastN(bars, n)

-----------------------------------------------------------------------------
(* Writer and reader threads on one MemoryStore(StoreMaxTicks, StoreMaxBars).
   Every method is `with self._lock:` around its body; a thread is at
   "idle" (outside the store), "acquire" (waiting for the lock), "body" or
   "append" (inside the with block) or "release" (leaving it). *)

ThTicks == {Tick("BTC", 1000, 1, 1)}
ThBars == {BarOf(Tick("BTC", 1000, 1, 1))}

WriteCalls ==
    {[op |-> "add_tick", tick |-> tick] : tick \in ThTicks}
        \cup {[op |-> "add_bar", bar |-> bar, timeframe |-> "1S"] :
                 bar \in ThBars}
        \cup {[op |-> "clear", symbol |-> symbol] :
                 symbol \in {None, Some("btc")}}

ReadCalls ==
    {[op |-> "get_ticks", symbol |-> "btc", n |-> None],
     [op |-> "get_bars", symbol |-> "btc", timeframe |-> "1S", n |-> None],
     [op |-> "symbols"],
     [op |-> "bar_count"]}

\* What the read call c computes from the dict d (the keys of symbols are
\* taken as a set).
ValueOf(c, d) ==
    CASE c.op = "get_ticks" -> GetTicksOf(d, c.symbol, c.n)
      [] c.op = "get_bars" -> GetBarsOf(d, c.symbol, c.timeframe, c.n)
      [] c.op = "symbols" -> SymbolsOf(d)
      [] c.op = "bar_count" -> BarCountOf(d)

\* list(self.ticks), list(self.bars[timeframe]), list(self._data.keys()) and
\* the dict comprehension of bar_count build a new object.
ListCopy(c, items) == [shared |-> FALSE, call |-> c, items |-> items]

\* What the holder of a returned object r reads in it when the dict is d.
View(r, d) == IF r.shared THEN ValueOf(r.call, d) ELSE r.items

\* Mutant of CanAcquire: entering the with block never waits.
CanAcquireAlways(t) == TRUE

\* `with self._lock:` enters only when no thread holds the lock.
CanAcquire(t) == lock = None

\* seen after a step that leaves the dict d: every reader inside a call
\* records what its call would return now.
Observe(d) ==
    [t \in Readers |->
        IF pc[t] # "idle" THEN seen[t] \cup {ValueOf(call[t], d)}
        ELSE seen[t]]

\* A writer thread calls add_tick, add_bar or clear.
ThCallWrite ==
    /\ \E t \in Writers, c \in WriteCalls :
          /\ pc[t] = "idle"
          /\ c.op = "add_tick" => tick_count < MaxTickCount
          /\ pc' = [pc EXCEPT ![t] = "acquire"]
          /\ call' = [call EXCEPT ![t] = c]
    /\ UNCHANGED <<max_ticks, max_bars, data, tick_count, last_update, ret,
                   added, lock, result, seen>>
    /\ UNCHANGED <<alertVars, s4Vars, rsVars, extVars>>

\* A reader thread calls get_ticks, get_bars, symbols or bar_count.
ThCallRead ==
    /\ \E t \in Readers, c \in ReadCalls :
          /\ pc[t] = "idle"
          /\ pc' = [pc EXCEPT ![t] = "acquire"]
          /\ call' = [call EXCEPT ![t] = c]
          /\ result' = [result EXCEPT ![t] = None]
          /\ seen' = [seen EXCEPT ![t] = {ValueOf(c, data)}]
    /\ UNCHANGED <<max_ticks, max_bars, data, tick_count, last_update, ret,
                   added, lock>>
    /\ UNCHANGED <<alertVars, s4Vars, rsVars, extVars>>

\* `with self._lock:` is entered.
ThAcquire ==
    /\ \E t \in Threads :
          /\ pc[t] = "acquire"
          /\ CanAcquire(t)
          /\ lock' = Some(t)
          /\ pc' = [pc EXCEPT ![t] = "body"]
    /\ UNCHANGED <<max_ticks, max_bars, data, tick_count, last_update, ret,
                   added, call, result, seen>>
    /\ UNCHANGED <<alertVars, s4Vars, rsVars, extVars>>

\* add_tick and add_bar, first half: the symbol's entry is created.
ThEnsure ==
    /\ \E t \in Writers :
          /\ pc[t] = "body"
          /\ call[t].op \in {"add_tick", "add_bar"}
          /\ data' = IF call[t].op = "add_tick"
                        THEN EnsureSymbolForTick(data,
                                 Upper(call[t].tick.symbol), max_ticks)
                        ELSE EnsureSymbolForBar(data,
                                 Upper(call[t].bar.symbol))
          /\ pc' = [pc EXCEPT ![t] = "append"]
    /\ seen' = Observe(data')
    /\ UNCHANGED <<max_ticks, max_bars, tick_count, last_update, ret, added,
                   lock, call, result>>
    /\ UNCHANGED <<alertVars, s4Vars, rsVars, extVars>>

\* add_tick and add_bar, second half: the item is appended to the symbol's
\* ring.  self._data[symbol] raises KeyError when the entry is gone, which
\* leaves the with block.
ThAppend ==
    /\ \E t \in Writers :
          /\ pc[t] = "append"
          /\ IF call[t].op = "add_tick"
                THEN LET symbol == Upper(call[t].tick.symbol)
                     IN  IF symbol \in DOMAIN data
                            THEN /\ data' = DictSet(data, symbol,
                                       SymbolDataAddTick(data[symbol],
                                                         call[t].tick))
                                 /\ tick_count' = tick_count + 1
                                 /\ last_update' = Some(call[t].tick.timestamp)
                            ELSE UNCHANGED <<data, tick_count, last_update>>
                ELSE LET symbol == Upper(call[t].bar.symbol)
                     IN  /\ IF symbol \in DOMAIN data
                               THEN data' = DictSet(data, symbol,
                                       SymbolDataAddBar(data[symbol],
                                           call[t].timeframe, call[t].bar,
                                           max_bars))
                               ELSE UNCHANGED data
                         /\ UNCHANGED <<tick_count, last_update>>
          /\ pc' = [pc EXCEPT ![t] = "release"]
    /\ seen' = Observe(data')
    /\ UNCHANGED <<max_ticks, max_bars, ret, added, lock, call, result>>
    /\ UNCHANGED <<alertVars, s4Vars, rsVars, extVars>>

\* The body of clear.
ThClear ==
    /\ \E t \in Writers :
          /\ pc[t] = "body"
          /\ call[t].op = "clear"
          /\ StoreClear(call[t].symbol)
          /\ pc' = [pc EXCEPT ![t] = "release"]
    /\ seen' = Observe(data')
    /\ UNCHANGED <<lock, call, result>>
    /\ UNCHANGED <<alertVars, s4Vars, rsVars, extVars>>

\* The body of get_ticks, get_bars, symbols and bar_count.
ThRead ==
    /\ \E t \in Readers :
          /\ pc[t] = "body"
          /\ result' = [result EXCEPT
                 ![t] = Some(ListCopy(call[t], ValueOf(call[t], data)))]
          /\ pc' = [pc EXCEPT ![t] = "release"]
    /\ UNCHANGED <<max_ticks, max_bars, data, tick_count, last_update, ret,
                   added, lock, call, seen>>
    /\ UNCHANGED <<alertVars, s4Vars, rsVars, extVars>>

\* The with block is left and the method returns; what the reader's call
\* could have returned is no longer recorded.
ThRelease ==
    /\ \E t \in Threads :
          /\ pc[t] = "release"
          /\ lock' = None
          /\ pc' = [pc EXCEPT ![t] = "idle"]
          /\ call' = [call EXCEPT ![t] = [op |-> "none"]]
          /\ seen' = [r \in Readers |-> IF r = t THEN {} ELSE seen[r]]
    /\ UNCHANGED <<max_ticks, max_bars, data, tick_count, last_update, ret,
                   added, result>>
    /\ UNCHANGED <<alertVars, s4Vars, rsVars, extVars>>

NextThreads ==
    \/ ThCallWrite \/ ThCallRead \/ ThAcquire \/ ThEnsure \/ ThAppend
    \/ ThClear \/ ThRead \/ ThRelease
SpecThreads == InitStore /\ [][NextThreads]_vars

\* Every thread inside a with block is the one holder of the lock.
MutexHeld ==
    \A t \in Threads : pc[t] \in {"body", "append", "release"} => lock = Some(t)

\* What a read is about to return is what its call would have returned at
\* some instant since the call.
ReadIsSnapshot ==
    \A t \in Readers :
        pc[t] = "release" => result[t][1].items \in seen[t]

\* A step leaves what every returned object shows as it was.
ReturnedListsStable ==
    \A t \in Readers :
        (pc[t] = "idle" /\ pc'[t] = "idle" /\ result[t] # None) =>
            /\ result'[t] = result[t]
            /\ View(result[t][1], data') = View(result[t][1], data)

\* C10: with writer threads calling add_tick, add_bar and clear concurrently
\* with a reader thread calling get_ticks, get_bars, symbols and bar_count,
\* every body runs with the store's lock held by its thread alone, each read
\* returns what the store held at one instant between its call and its
\* return, and no later write changes an object already returned.
C10_ThreadSafe ==
    [](MutexHeld /\ ReadIsSnapshot) /\ [][ReturnedListsStable]_vars

\* A reader is about to return a non-empty tick list that was not the
\* ring's contents when it called get_ticks, because a writer got the lock
\* first, and both writers now wait for the lock the reader holds.
C10_Witness ==
    \E r \in Readers :
        /\ pc[r] = "release"
        /\ call[r].op = "get_ticks"
        /\ result[r][1].items # <<>>
        /\ Cardinality(seen[r]) >= 2
        /\ lock = Some(r)
        /\ \A w \in Writers : pc[w] = "acquire"

-----------------------------------------------------------------------------
(* The live pipeline: GlobalState.add_tick stores the tick, feeds the
   resampler of the timeframe and stores the bars it completes (app.py) *)

MaxPipelineTicks == 3

PipelineSymbols == {"BTC", "ETH"}
PipelineTicks ==
    {Tick(sym, t, 1, 1) : sym \in PipelineSymbols, t \in TickTimes}

\* Mutant of ClearAll: the cooldown map is kept.
ClearAllKeepCooldowns ==
    /\ history' = <<>>
    /\ UNCHANGED <<rules, max_history, last_triggered, triggered, emitted>>

\* AlertEngine.clear_all()
ClearAll ==
    /\ history' = <<>>
    /\ last_triggered' = EmptyDict
    /\ UNCHANGED <<rules, max_history, triggered, emitted>>

\* The resampler's `for callback in self._callbacks: callback(completed_bar)`
\* from callback i on, where every subscriber is GlobalState's on_bar:
\* self.store.add_bar(bar, tf).
RECURSIVE NotifyBar(_, _, _, _, _, _)
NotifyBar(callbacks, i, d, bar, tf, maxBars) ==
    IF i > Len(callbacks) THEN d
    ELSE NotifyBar(callbacks, i + 1, DataAfterAddBar(d, bar, tf, maxBars),
                   bar, tf, maxBars)

\* MemoryStore.get_prices(symbol, timeframe, n): the series as the list of
\* its (index, value) pairs.
GetPricesOf(d, symbol, timeframe, n) ==
    LET bars == GetBarsOf(d, symbol, timeframe, n)
    IN  [i \in 1..Len(bars) |->
            [index |-> bars[i].timestamp, value |-> bars[i].close]]

\* GlobalState.add_tick(tick, timeframe)
GsAddTick(tick, timeframe) ==
    LET isNew == timeframe \notin gs_resamplers
        callbacks1 == IF isNew THEN <<"on_bar">> ELSE bar_callbacks
        data1 == DataAfterAddTick(data, tick, max_ticks)
    IN  /\ tick_count' = tick_count + 1
        /\ last_update' = Some(tick.timestamp)
        /\ added' = DictSet(added, Upper(tick.symbol),
                       Append(IF Upper(tick.symbol) \in DOMAIN added
                                 THEN added[Upper(tick.symbol)] ELSE <<>>,
                              tick))
        /\ gs_tick_count' = gs_tick_count + 1
        /\ gs_last_update' = Some("now")
        /\ gs_resamplers' = gs_resamplers \cup {timeframe}
        /\ bar_callbacks' = callbacks1
        /\ ResamplerAddTick(tick)
        /\ data' =
              IF last_bar' # None
                 THEN DataAfterAddBar(
                          NotifyBar(callbacks1, 1, data1, last_bar'[1],
                                    timeframe, max_bars),
                          last_bar'[1], timeframe, max_bars)
                 ELSE data1
        /\ UNCHANGED <<max_ticks, max_bars, ret, thVars>>

\* GlobalState.reset_all()
GsResetAll ==
    /\ StoreClear(None)
    /\ ClearAll
    /\ builders' = EmptyDict
    /\ current_bar_time' = EmptyDict
    /\ completed_bars' = EmptyDict
    /\ last_bar' = None
    /\ fed' = <<>>
    /\ gs_resamplers' = {}
    /\ bar_callbacks' = <<>>
    /\ gs_tick_count' = 0
    /\ gs_last_update' = None
    /\ UNCHANGED thVars

PipelineAddTick ==
    /\ gs_tick_count < MaxPipelineTicks
    /\ \E tick \in PipelineTicks : GsAddTick(tick, ResamplerTimeframe)
    /\ UNCHANGED <<alertVars, s4Vars, extNotGs>>

PipelineResetAll ==
    /\ gs_tick_count > 0
    /\ GsResetAll
    /\ UNCHANGED <<s4Vars, extNotGs>>

InitPipeline ==
    AlertInit /\ S4Idle /\ ResamplerInit /\ StoreIdle /\ ExtIdle
NextPipeline == PipelineAddTick \/ PipelineResetAll
SpecPipeline == InitPipeline /\ [][NextPipeline]_vars

\* The index of a price series is strictly increasing.
StrictlyIncreasingIndex(series) ==
    \A i \in 1..Len(series), j \in 1..Len(series) :
        i < j => series[i].index < series[j].index

\* C11: the price series get_prices returns for any symbol and timeframe has
\* a strictly increasing timestamp index without duplicates, after any
\* sequence of ticks ingested through the pipeline.
C11_PriceIndex ==
    \A sym \in PipelineSymbols :
        StrictlyIncreasingIndex(
            GetPricesOf(data, sym, ResamplerTimeframe, None))

-----------------------------------------------------------------------------
(* Validity of the ticks the normalizers let through *)

\* C19: every record with price <= 0 or an empty symbol is dropped by
\* normalize_tick and by normalize_from_ndjson, so every tick that reaches
\* the resampler has price > 0 and a non-empty symbol.
C19_ValidTicks ==
    \A n \in 1..Len(fed) : fed[n].price > 0 /\ fed[n].symbol # ""

-----------------------------------------------------------------------------
(* NDJSON replay: load_ndjson_data reads a file line by line (app.py) *)

MaxLines == 3

\* A line is blank, is not JSON, or is the JSON text of a record.
BlankLine == [kind |-> "blank"]
InvalidJsonLine == [kind |-> "invalid"]
RecordLine(record) == [kind |-> "record", record |-> record]

FileLines ==
    { BlankLine, InvalidJsonLine,
      RecordLine(ReplayRec(Some("btc"), Some(Num(TickStepMs)), Some(Num(1)),
                           Some(Num(2)), None)),
      RecordLine(ReplayRec(Some("eth"), Some(Num(2 * TickStepMs)),
                           Some(Num(2)), None, Some(Num(1)))),
      RecordLine(ReplayRec(Some("btc"), Some(Num(TickStepMs)), None,
                           Some(Num(2)), None)) }

Files == [1..MaxLines -> FileLines]

\* The call load_ndjson_data(filepath) on a file that opens.
LoadCall ==
    /\ ld_status = "idle"
    /\ \E file \in Files : ld_file' = file
    /\ ld_pos' = 1
    /\ ld_ticks' = <<>>
    /\ ld_status' = "loading"
    /\ UNCHANGED <<alertVars, s4Vars, rsVars, storeVars, extNotLd>>

\* One iteration of `for line in f`: a blank line is passed over,
\* json.loads raises on a line that is not JSON and the exception leaves the
\* loop for the except clause, a record is normalised and appended when
\* normalize_from_ndjson returns a tick.
LoadLine ==
    /\ ld_status = "loading"
    /\ ld_pos <= Len(ld_file)
    /\ LET line == ld_file[ld_pos]
       IN  CASE line.kind = "blank" ->
                  /\ ld_pos' = ld_pos + 1
                  /\ UNCHANGED <<ld_ticks, ld_status>>
             [] line.kind = "invalid" ->
                  /\ ld_status' = "error"
                  /\ UNCHANGED <<ld_pos, ld_ticks>>
             [] line.kind = "record" ->
                  LET tick == normalize_from_ndjson(line.record)
                  IN  /\ ld_ticks' = IF tick # None
                                        THEN Append(ld_ticks, tick[1])
                                        ELSE ld_ticks
                      /\ ld_pos' = ld_pos + 1
                      /\ UNCHANGED ld_status
    /\ UNCHANGED <<ld_file, alertVars, s4Vars, rsVars, storeVars, extNotLd>>

\* `return ticks`, at the end of the file or after the except clause.
LoadReturn ==
    /\ \/ ld_status = "loading" /\ ld_pos > Len(ld_file)
       \/ ld_status = "error"
    /\ ld_status' = "returned"
    /\ UNCHANGED <<ld_file, ld_pos, ld_ticks>>
    /\ UNCHANGED <<alertVars, s4Vars, rsVars, storeVars, extNotLd>>

InitLoader ==
    AlertInit /\ S4Idle /\ ResamplerInit /\ StoreIdle /\ ExtIdle
NextLoader == LoadCall \/ LoadLine \/ LoadReturn
SpecLoader == InitLoader /\ [][NextLoader]_vars

\* The ticks of the well-formed lines of file from line i on, in file order.
RECURSIVE WellFormedTicks(_, _)
WellFormedTicks(file, i) ==
    IF i > Len(file) THEN <<>>
    ELSE LET line == file[i]
             tick == IF line.kind = "record"
                        THEN normalize_from_ndjson(line.record) ELSE None
         IN  tick \o WellFormedTicks(file, i + 1)

\* C20: a malformed line (invalid JSON, or a record missing a required
\* field) is skipped: load_ndjson_data returns the ticks of all well-formed
\* lines of the file, before and after it, in file order.
C20_MalformedSkipped ==
    ld_status = "returned" => ld_ticks = WellFormedTicks(ld_file, 1)

-----------------------------------------------------------------------------
(* Threads on one AlertEngine.  check_zscore, check_custom, get_history,
   clear_history and clear_all run their bodies inside `with self._lock:`;
   add_rule, remove_rule and alert_count do not take the lock.  Subscribers
   are called by the thread that fired the alert, inside the with block. *)

MaxEngCalls == 3
MaxSubscribers == 1

LockedOps ==
    {"check_zscore", "check_custom", "get_history", "clear_history",
     "clear_all"}

\* A rule a caller adds
ExtraRule ==
    [name |-> "zscore_extra", alert_type |-> "zscore_high",
     op |-> "gt", threshold |-> 20,
     message_template |-> "Z-score extra",
     severity |-> "info", cooldown_seconds |-> 60]

\* The calls a thread makes
EngCalls ==
    {[op |-> "check_zscore", z |-> 25, symbol |-> None, timestamp |-> ts] :
        ts \in {0, 60}}
      \cup {[op |-> "check_custom", value |-> 25, holds |-> h,
             cooldown_key |-> Some("k"), timestamp |-> 0] :
                h \in BOOLEAN}
      \cup {[op |-> "get_history"], [op |-> "clear_history"],
            [op |-> "clear_all"], [op |-> "alert_count"],
            [op |-> "add_rule", rule |-> ExtraRule],
            [op |-> "remove_rule", name |-> "zscore_high"]}

\* What a subscriber does with the alert: nothing, or a call to the engine
\* that notified it.
SubscriberKinds == {"noop", "get_history", "clear_history", "check_zscore"}

\* The frame of a call c: pc is where the thread is in the method, i the
\* position of the loop over self._rules, cb the position of the loop over
\* self._callbacks, triggered the local list of check_zscore.
Frame(c) ==
    [call |-> c,
     pc |-> IF c.op = "check_custom" THEN "condition" ELSE "start",
     i |-> 1, cb |-> 1, triggered |-> <<>>]

\* The call a subscriber of the given kind makes when notified at timestamp.
SubscriberCall(kind, timestamp) ==
    IF kind = "check_zscore"
       THEN [op |-> "check_zscore", z |-> 25, symbol |-> None,
             timestamp |-> timestamp]
       ELSE [op |-> kind]

Top(t) == eng_stack[t][Len(eng_stack[t])]
InFrame(t, ops, pcs) ==
    /\ eng_stack[t] # <<>>
    /\ Top(t).call.op \in ops
    /\ Top(t).pc \in pcs
SetTop(t, f) ==
    [eng_stack EXCEPT ![t] = [@ EXCEPT ![Len(@)] = f]]
Push(stack, t, f) == [stack EXCEPT ![t] = Append(@, f)]
Pop(t) == [eng_stack EXCEPT ![t] = SubSeq(@, 1, Len(@) - 1)]

\* list.pop(i)
ListPop(list, i) ==
    SubSeq(list, 1, i - 1) \o SubSeq(list, i + 1, Len(list))

\* Where a method goes on after the loop over the subscribers.
AfterNotify(op) == IF op = "check_zscore" THEN "body" ELSE "release"

\* engine.on_alert(callback)
EngOnAlert ==
    /\ Len(eng_callbacks) < MaxSubscribers
    /\ \E kind \in SubscriberKinds :
          eng_callbacks' = Append(eng_callbacks, kind)
    /\ UNCHANGED <<eng_lock, eng_stack, eng_calls>>
    /\ UNCHANGED <<alertVars, s4Vars, rsVars, storeVars, extNotEng>>

\* A thread calls a method of the engine.
EngCall ==
    /\ eng_calls < MaxEngCalls
    /\ \E t \in EngThreads, c \in EngCalls :
          /\ eng_stack[t] = <<>>
          /\ eng_stack' = Push(eng_stack, t, Frame(c))
    /\ eng_calls' = eng_calls + 1
    /\ UNCHANGED <<eng_lock, eng_callbacks>>
    /\ UNCHANGED <<alertVars, s4Vars, rsVars, storeVars, extNotEng>>

\* check_custom evaluates condition(value) before it takes the lock.
EngCondition ==
    /\ \E t \in EngThreads :
          /\ InFrame(t, {"check_custom"}, {"condition"})
          /\ eng_stack' = IF Top(t).call.holds
                             THEN SetTop(t, [Top(t) EXCEPT !.pc = "start"])
                             ELSE Pop(t)
    /\ UNCHANGED <<eng_lock, eng_callbacks, eng_calls>>
    /\ UNCHANGED <<alertVars, s4Vars, rsVars, storeVars, extNotEng>>

\* `with self._lock:` is entered; threading.Lock is not reentrant, so the
\* thread waits while any thread, itself included, holds the lock.
EngAcquire ==
    /\ \E t \in EngThreads :
          /\ InFrame(t, LockedOps, {"start"})
          /\ eng_lock = None
          /\ eng_lock' = Some(t)
          /\ eng_stack' = SetTop(t, [Top(t) EXCEPT !.pc = "body"])
    /\ UNCHANGED <<eng_callbacks, eng_calls>>
    /\ UNCHANGED <<alertVars, s4Vars, rsVars, storeVars, extNotEng>>

\* One iteration of `for rule in self._rules` in check_zscore: the list
\* iterator reads self._rules[i] of the list as it is now, and the loop ends
\* when i is past its end.
EngCheckStep ==
    /\ \E t \in EngThreads :
          /\ InFrame(t, {"check_zscore"}, {"body"})
          /\ LET f == Top(t)
             IN  IF f.i > Len(rules)
                    THEN /\ eng_stack' = SetTop(t, [f EXCEPT !.pc = "release"])
                         /\ UNCHANGED <<history, last_triggered, emitted>>
                    ELSE LET st == CheckRules(<<rules[f.i]>>, 1, f.call.z,
                                       f.call.symbol, f.call.timestamp,
                                       [history |-> history,
                                        max_history |-> max_history,
                                        last_triggered |-> last_triggered,
                                        triggered |-> f.triggered,
                                        fired |-> <<>>])
                         IN  /\ history' = st.history
                             /\ last_triggered' = st.last_triggered
                             /\ emitted' = emitted \o st.fired
                             /\ eng_stack' = SetTop(t,
                                    [f EXCEPT !.i = f.i + 1,
                                              !.triggered = st.triggered,
                                              !.cb = 1,
                                              !.pc = IF st.fired # <<>>
                                                        THEN "notify"
                                                        ELSE "body"])
    /\ UNCHANGED <<rules, max_history, triggered>>
    /\ UNCHANGED <<eng_lock, eng_callbacks, eng_calls>>
    /\ UNCHANGED <<s4Vars, rsVars, storeVars, extNotEng>>

\* The body of check_custom up to the loop over the subscribers.
EngCustomBody ==
    /\ \E t \in EngThreads :
          /\ InFrame(t, {"check_custom"}, {"body"})
          /\ LET f == Top(t)
                 key == f.call.cooldown_key
                 alert == [timestamp |-> f.call.timestamp,
                           alert_type |-> "custom",
                           message |-> <<"custom", f.call.value>>,
                           severity |-> "warning", value |-> f.call.value,
                           symbol |-> None]
             IN  IF /\ key # None /\ key # Some("")
                    /\ key[1] \in DOMAIN last_triggered
                    /\ f.call.timestamp - last_triggered[key[1]]
                           < DefaultCooldown
                    THEN /\ eng_stack' = SetTop(t, [f EXCEPT !.pc = "release"])
                         /\ UNCHANGED <<history, last_triggered>>
                    ELSE /\ history' = DequeAppend(history, alert, max_history)
                         /\ last_triggered' =
                               IF key # None /\ key # Some("")
                                  THEN DictSet(last_triggered, key[1],
                                               f.call.timestamp)
                                  ELSE last_triggered
                         /\ eng_stack' = SetTop(t,
                                [f EXCEPT !.cb = 1, !.pc = "notify"])
    /\ UNCHANGED <<rules, max_history, triggered, emitted>>
    /\ UNCHANGED <<eng_lock, eng_callbacks, eng_calls>>
    /\ UNCHANGED <<s4Vars, rsVars, storeVars, extNotEng>>

\* One iteration of `for callback in self._callbacks: callback(alert)`: a
\* subscriber that calls the engine runs that call on the same thread.
EngNotify ==
    /\ \E t \in EngThreads :
          /\ InFrame(t, {"check_zscore", "check_custom"}, {"notify"})
          /\ LET f == Top(t)
             IN  IF f.cb > Len(eng_callbacks)
                    THEN eng_stack' = SetTop(t,
                             [f EXCEPT !.pc = AfterNotify(f.call.op)])
                    ELSE LET kind == eng_callbacks[f.cb]
                             next == SetTop(t, [f EXCEPT !.cb = f.cb + 1])
                         IN  eng_stack' =
                                 IF kind = "noop" THEN next
                                 ELSE Push(next, t,
                                          Frame(SubscriberCall(kind,
                                                    f.call.timestamp)))
    /\ UNCHANGED <<eng_lock, eng_callbacks, eng_calls>>
    /\ UNCHANGED <<alertVars, s4Vars, rsVars, storeVars, extNotEng>>

\* The bodies of get_history (a copy of the history), clear_history and
\* clear_all.
EngSimpleBody ==
    /\ \E t \in EngThreads :
          /\ InFrame(t, {"get_history", "clear_history", "clear_all"},
                     {"body"})
          /\ history' = IF Top(t).call.op = "get_history" THEN history
                        ELSE <<>>
          /\ last_triggered' = IF Top(t).call.op = "clear_all" THEN EmptyDict
                               ELSE last_triggered
          /\ eng_stack' = SetTop(t, [Top(t) EXCEPT !.pc = "release"])
    /\ UNCHANGED <<rules, max_history, triggered, emitted>>
    /\ UNCHANGED <<eng_lock, eng_callbacks, eng_calls>>
    /\ UNCHANGED <<s4Vars, rsVars, storeVars, extNotEng>>

\* The with block is left and the method returns.
EngRelease ==
    /\ \E t \in EngThreads :
          /\ InFrame(t, LockedOps, {"release"})
          /\ eng_lock' = None
          /\ triggered' = IF Top(t).call.op = "check_zscore"
                             THEN Top(t).triggered ELSE triggered
          /\ eng_stack' = Pop(t)
    /\ UNCHANGED <<rules, history, max_history, last_triggered, emitted>>
    /\ UNCHANGED <<eng_callbacks, eng_calls>>
    /\ UNCHANGED <<s4Vars, rsVars, storeVars, extNotEng>>

\* add_rule appends to self._rules and alert_count reads len(self._history),
\* both without the lock.
EngUnlocked ==
    /\ \E t \in EngThreads :
          /\ InFrame(t, {"add_rule", "alert_count"}, {"start"})
          /\ rules' = IF Top(t).call.op = "add_rule"
                         THEN Append(rules, Top(t).call.rule) ELSE rules
          /\ eng_stack' = Pop(t)
    /\ UNCHANGED <<history, max_history, last_triggered, triggered, emitted>>
    /\ UNCHANGED <<eng_lock, eng_callbacks, eng_calls>>
    /\ UNCHANGED <<s4Vars, rsVars, storeVars, extNotEng>>

\* One iteration of `for i, rule in enumerate(self._rules)` in remove_rule,
\* without the lock.
EngRemoveStep ==
    /\ \E t \in EngThreads :
          /\ InFrame(t, {"remove_rule"}, {"start"})
          /\ LET f == Top(t)
             IN  IF f.i > Len(rules)
                    THEN eng_stack' = Pop(t) /\ UNCHANGED rules
                 ELSE IF rules[f.i].name = f.call.name
                    THEN eng_stack' = Pop(t) /\ rules' = ListPop(rules, f.i)
                 ELSE /\ eng_stack' = SetTop(t, [f EXCEPT !.i = f.i + 1])
                      /\ UNCHANGED rules
    /\ UNCHANGED <<history, max_history, last_triggered, triggered, emitted>>
    /\ UNCHANGED <<eng_lock, eng_callbacks, eng_calls>>
    /\ UNCHANGED <<s4Vars, rsVars, storeVars, extNotEng>>

InitEngine ==
    AlertInit /\ S4Idle /\ ResamplerInit /\ StoreIdle /\ ExtIdle
NextEngine ==
    \/ EngOnAlert \/ EngCall \/ EngCondition \/ EngAcquire \/ EngCheckStep
    \/ EngCustomBody \/ EngNotify \/ EngSimpleBody \/ EngRelease
    \/ EngUnlocked \/ EngRemoveStep
SpecEngine == InitEngine /\ [][NextEngine]_vars

\* The next step of thread t reads or writes self._rules, self._history or
\* self._last_triggered.
Accessing(t) ==
    \/ InFrame(t, LockedOps, {"body"})
    \/ InFrame(t, {"add_rule", "remove_rule", "alert_count"}, {"start"})

\* A thread about to read or write the rules, the history or the cooldown
\* map holds the lock.
LockHeldOnAccess ==
    \A t \in EngThreads : Accessing(t) => eng_lock = Some(t)

\* Thread t is inside check_zscore's loop over the rules.
MidIteration(t) ==
    \E n \in 1..Len(eng_stack[t]) :
        /\ eng_stack[t][n].call.op = "check_zscore"
        /\ eng_stack[t][n].pc \in {"body", "notify"}

\* No step changes the rules while a thread iterates over them.
NoRuleChangeDuringCheck ==
    rules' # rules => \A t \in EngThreads : ~MidIteration(t)

\* C12: every read or write of the rules list, the history and the cooldown
\* map (add_rule, remove_rule, check_zscore, check_custom, get_history,
\* clear_history, clear_all, alert_count) happens while the thread holds the
\* engine lock, so add_rule and remove_rule never interleave with
\* check_zscore's iteration over the rules.
C12_EngineLock ==
    [](LockHeldOnAccess) /\ [][NoRuleChangeDuringCheck]_vars

\* Every thread that can take a step of a method it is in eventually takes
\* it: the threads are scheduled by the operating system.
EngFairness ==
    /\ WF_vars(EngCondition) /\ WF_vars(EngAcquire) /\ WF_vars(EngCheckStep)
    /\ WF_vars(EngCustomBody) /\ WF_vars(EngNotify) /\ WF_vars(EngSimpleBody)
    /\ WF_vars(EngRelease) /\ WF_vars(EngUnlocked) /\ WF_vars(EngRemoveStep)
SpecEngineFair == SpecEngine /\ EngFairness

\* Thread t is inside a check_zscore or check_custom call it made.
InCheck(t) ==
    /\ eng_stack[t] # <<>>
    /\ eng_stack[t][1].call.op \in {"check_zscore", "check_custom"}

\* C13: every check_zscore and check_custom call eventually releases the
\* engine lock and returns, for every registered subscriber, including one
\* that calls get_history, clear_history or check_zscore on the same engine.
C13_ChecksReturn ==
    \A t \in EngThreads : InCheck(t) ~> (eng_stack[t] = <<>>)

-----------------------------------------------------------------------------
(* The reconnect loop of BinanceWebSocketClient._connect_symbol, one task
   per symbol, with a clock in whole seconds.  A connection attempt is
   resolved at the instant it begins (refused or established); time passes
   while every task sleeps or holds a connection. *)

MaxTime == 92
MaxFrames == 1

\* The symbols whose endpoint accepts connections; the endpoint of the
\* other symbol refuses every attempt.
BoReachable == {"btcusdt"}

\* Mutant of NextDelay: the delay doubles without a cap.
NextDelayUncapped(delay) == delay * ReconnectMultiplier

\* Mutant of NextDelay: the delay grows by the multiplier instead of being
\* multiplied by it.
NextDelayAdditive(delay) ==
    PyMin(delay + ReconnectMultiplier, MaxReconnectDelay)

\* delay = min(delay * self._reconnect_multiplier, self._max_reconnect_delay)
NextDelay(delay) == PyMin(delay * ReconnectMultiplier, MaxReconnectDelay)

\* connect(symbols): the run flag is set and one task per symbol is created;
\* each task starts with delay = self._reconnect_delay.
ConnectWith(symbols) ==
    /\ ~bo_running
    /\ \A s \in BoSymbols : bo_pc[s] = "none"
    /\ bo_running' = TRUE
    /\ bo_pc' = [s \in BoSymbols |-> IF s \in symbols THEN "loop" ELSE "none"]
    /\ bo_delay' = [s \in BoSymbols |-> ReconnectDelay]
    /\ UNCHANGED <<bo_now, bo_wake, bo_streak, bo_frames, bo_attempt_at,
                   bo_last_wait>>
    /\ UNCHANGED <<alertVars, s4Vars, rsVars, storeVars, extNotBo>>

\* `while self._running:` followed by websockets.connect(url), or the end
\* of the task.
TaskAttempt(s) ==
    /\ bo_pc[s] = "loop"
    /\ IF bo_running
          THEN /\ bo_pc' = [bo_pc EXCEPT ![s] = "connecting"]
               /\ bo_attempt_at' = [bo_attempt_at EXCEPT ![s] = Some(bo_now)]
          ELSE /\ bo_pc' = [bo_pc EXCEPT ![s] = "done"]
               /\ UNCHANGED bo_attempt_at
    /\ UNCHANGED <<bo_running, bo_now, bo_delay, bo_wake, bo_streak,
                   bo_frames, bo_last_wait>>
    /\ UNCHANGED <<alertVars, s4Vars, rsVars, storeVars, extNotBo>>

\* The code after the try statement: `if self._running:` the task sleeps
\* for delay seconds, else it goes back to the loop test.
AfterTry(s) ==
    IF bo_running
       THEN /\ bo_pc' = [bo_pc EXCEPT ![s] = "sleeping"]
            /\ bo_wake' = [bo_wake EXCEPT ![s] = bo_now + bo_delay[s]]
            /\ bo_streak' = [bo_streak EXCEPT ![s] = @ + 1]
            /\ bo_last_wait' = [bo_last_wait EXCEPT ![s] = Some(bo_delay[s])]
       ELSE /\ bo_pc' = [bo_pc EXCEPT ![s] = "loop"]
            /\ UNCHANGED <<bo_wake, bo_streak, bo_last_wait>>

\* websockets.connect raises: the attempt has failed.
TaskConnectFails(s) ==
    /\ bo_pc[s] = "connecting"
    /\ AfterTry(s)
    /\ UNCHANGED <<bo_running, bo_now, bo_delay, bo_frames, bo_attempt_at>>
    /\ UNCHANGED <<alertVars, s4Vars, rsVars, storeVars, extNotBo>>

\* The connection is established: line 111 sets delay back to
\* self._reconnect_delay.
TaskConnected(s) ==
    /\ bo_pc[s] = "connecting"
    /\ s \in BoReachable
    /\ bo_pc' = [bo_pc EXCEPT ![s] = "connected"]
    /\ bo_delay' = [bo_delay EXCEPT ![s] = ReconnectDelay]
    /\ bo_streak' = [bo_streak EXCEPT ![s] = 0]
    /\ bo_frames' = [bo_frames EXCEPT ![s] = 0]
    /\ UNCHANGED <<bo_running, bo_now, bo_wake, bo_attempt_at, bo_last_wait>>
    /\ UNCHANGED <<alertVars, s4Vars, rsVars, storeVars, extNotBo>>

\* `async for message in ws`: a frame arrives; the loop is left when the
\* run flag is down, else the frame is handled.
TaskFrame(s) ==
    /\ bo_pc[s] = "connected"
    /\ bo_frames[s] < MaxFrames
    /\ IF bo_running
          THEN /\ bo_frames' = [bo_frames EXCEPT ![s] = @ + 1]
               /\ UNCHANGED bo_pc
          ELSE /\ bo_pc' = [bo_pc EXCEPT ![s] = "loop"]
               /\ UNCHANGED bo_frames
    /\ UNCHANGED <<bo_running, bo_now, bo_delay, bo_wake, bo_streak,
                   bo_attempt_at, bo_last_wait>>
    /\ UNCHANGED <<alertVars, s4Vars, rsVars, storeVars, extNotBo>>

\* The established connection drops.
TaskDropped(s) ==
    /\ bo_pc[s] = "connected"
    /\ AfterTry(s)
    /\ UNCHANGED <<bo_running, bo_now, bo_delay, bo_frames, bo_attempt_at>>
    /\ UNCHANGED <<alertVars, s4Vars, rsVars, storeVars, extNotBo>>

\* asyncio.sleep(delay) returns and the delay is raised.
TaskWake(s) ==
    /\ bo_pc[s] = "sleeping"
    /\ bo_wake[s] <= bo_now
    /\ bo_delay' = [bo_delay EXCEPT ![s] = NextDelay(@)]
    /\ bo_pc' = [bo_pc EXCEPT ![s] = "loop"]
    /\ UNCHANGED <<bo_running, bo_now, bo_wake, bo_streak, bo_frames,
                   bo_attempt_at, bo_last_wait>>
    /\ UNCHANGED <<alertVars, s4Vars, rsVars, storeVars, extNotBo>>

\* disconnect(): the run flag goes down, the sockets are closed and the
\* tasks are cancelled, which ends every task.
Disconnect ==
    /\ bo_running
    /\ bo_running' = FALSE
    /\ bo_pc' = [s \in BoSymbols |->
                    IF bo_pc[s] = "none" THEN "none" ELSE "done"]
    /\ UNCHANGED <<bo_now, bo_delay, bo_wake, bo_streak, bo_frames,
                   bo_attempt_at, bo_last_wait>>
    /\ UNCHANGED <<alertVars, s4Vars, rsVars, storeVars, extNotBo>>

\* One second passes while no task can run.
SecondPasses ==
    /\ bo_now < MaxTime
    /\ \E s \in BoSymbols : bo_pc[s] \in {"sleeping", "connected"}
    /\ \A s \in BoSymbols :
          /\ bo_pc[s] \notin {"loop", "connecting"}
          /\ bo_pc[s] = "sleeping" => bo_wake[s] > bo_now
    /\ bo_now' = bo_now + 1
    /\ UNCHANGED <<bo_running, bo_pc, bo_delay, bo_wake, bo_streak,
                   bo_frames, bo_attempt_at, bo_last_wait>>
    /\ UNCHANGED <<alertVars, s4Vars, rsVars, storeVars, extNotBo>>

BoConnect == ConnectWith(BoSymbols)
BoAttempt == \E s \in BoSymbols : TaskAttempt(s)
BoConnectFails == \E s \in BoSymbols : TaskConnectFails(s)
BoConnected == \E s \in BoSymbols : TaskConnected(s)
BoFrame == \E s \in BoSymbols : TaskFrame(s)
BoDropped == \E s \in BoSymbols : TaskDropped(s)
BoWake == \E s \in BoSymbols : TaskWake(s)
BoDisconnect == Disconnect
BoSecondPasses == SecondPasses

InitBackoff ==
    AlertInit /\ S4Idle /\ ResamplerInit /\ StoreIdle /\ ExtIdle
NextBackoff ==
    \/ BoConnect \/ BoAttempt \/ BoConnectFails \/ BoConnected \/ BoFrame
    \/ BoDropped \/ BoWake \/ BoDisconnect \/ BoSecondPasses
SpecBackoff == InitBackoff /\ [][NextBackoff]_vars

\* 2^n
RECURSIVE Pow2(_)
Pow2(n) == IF n = 0 THEN 1 ELSE 2 * Pow2(n - 1)

\* The n-th wait of the sequence 1, 2, 4, 8, 16, 30, 30, ... (n from 0)
BackoffWait(n) == IF n >= 5 THEN MaxReconnectDelay ELSE Pow2(n)

\* The delay of every task is the wait the sequence gives after the sleeps
\* begun since the last reset, and the sleep in progress has that length
\* less the raise that follows it.
FollowsSequence ==
    \A s \in BoSymbols :
        /\ bo_pc[s] \in {"loop", "connecting", "connected"} =>
              bo_delay[s] = BackoffWait(bo_streak[s])
        /\ bo_pc[s] = "sleeping" =>
              /\ bo_last_wait[s] = Some(BackoffWait(bo_streak[s] - 1))
              /\ bo_delay[s] = bo_last_wait[s][1]
              /\ bo_wake[s] <= bo_now + bo_last_wait[s][1]

\* Every wait is between reconnect_delay and max_reconnect_delay.
WaitInBounds ==
    \A s \in BoSymbols :
        /\ ReconnectDelay <= bo_delay[s] /\ bo_delay[s] <= MaxReconnectDelay
        /\ bo_last_wait[s] # None =>
              /\ ReconnectDelay <= bo_last_wait[s][1]
              /\ bo_last_wait[s][1] <= MaxReconnectDelay

\* An attempt that follows a wait at the cap begins at least 30 s after the
\* attempt before it.
CappedAttemptsApart ==
    \A s \in BoSymbols :
        (/\ bo_pc[s] = "loop" /\ bo_pc'[s] = "connecting"
         /\ bo_last_wait[s] = Some(MaxReconnectDelay)) =>
            bo_attempt_at'[s][1] - bo_attempt_at[s][1] >= MaxReconnectDelay

\* A step in which one symbol begins a backoff sleep leaves the delay, the
\* sleep and the position in the sequence of every other symbol as they
\* were.
OtherDelaysUntouched ==
    \A s \in BoSymbols, o \in BoSymbols :
        (s # o /\ bo_streak'[s] = bo_streak[s] + 1) =>
            /\ bo_delay'[o] = bo_delay[o]
            /\ bo_wake'[o] = bo_wake[o]
            /\ bo_streak'[o] = bo_streak[o]

\* C14: for each symbol the waits between consecutive failed connection
\* attempts are 1 s, then doubled each time and capped at 30 s (1, 2, 4, 8,
\* 16, 30, 30, ...); no wait is below reconnect_delay or above
\* max_reconnect_delay; an attempt that follows a wait at the cap begins at
\* least 30 s after the attempt before it; and one symbol's failures never
\* change another symbol's delay.
C14_Backoff ==
    /\ [](FollowsSequence /\ WaitInBounds)
    /\ [][CappedAttemptsApart /\ OtherDelaysUntouched]_vars

\* The second wait at the cap is over for the symbol whose endpoint refuses
\* every attempt (waits 1, 2, 4, 8, 16, 30, 30), while the other symbol,
\* reconnected since, is back at a short delay.
C14_Witness ==
    /\ bo_pc["ethusdt"] = "connecting"
    /\ bo_streak["ethusdt"] = 7
    /\ bo_last_wait["ethusdt"] = Some(MaxReconnectDelay)
    /\ bo_attempt_at["ethusdt"] = Some(91)
    /\ bo_delay["btcusdt"] < 8
    /\ bo_streak["btcusdt"] >= 1

\* C15: the delay of a symbol goes back to its initial value only in a step
\* that receives a frame: a connection that is established and closes before
\* any frame leaves the backoff where it was.
C15_ResetOnFrame ==
    [][\A s \in BoSymbols :
          bo_delay'[s] < bo_delay[s] => bo_frames'[s] = bo_frames[s] + 1]_vars

-----------------------------------------------------------------------------
(* Scenario S6: the connection of one symbol is established at once, drops
   at t = 10 s, and every later attempt is refused at once *)

S6Scenario == [symbol |-> "btcusdt", drop_at |-> 10]

S6Connect == ConnectWith({S6Scenario.symbol})
S6Attempt == \E s \in BoSymbols : TaskAttempt(s)
S6Established == \E s \in BoSymbols : bo_now = 0 /\ TaskConnected(s)
S6Frame == \E s \in BoSymbols : TaskFrame(s)
S6Drop ==
    \E s \in BoSymbols : bo_now = S6Scenario.drop_at /\ TaskDropped(s)
S6Refused ==
    \E s \in BoSymbols : bo_now > S6Scenario.drop_at /\ TaskConnectFails(s)
S6Wake == \E s \in BoSymbols : TaskWake(s)
S6SecondPasses ==
    /\ \A s \in BoSymbols :
          bo_pc[s] = "connected" => bo_now < S6Scenario.drop_at
    /\ SecondPasses

InitS6 ==
    AlertInit /\ S4Idle /\ ResamplerInit /\ StoreIdle /\ ExtIdle
NextS6 ==
    \/ S6Connect \/ S6Attempt \/ S6Established \/ S6Frame \/ S6Drop
    \/ S6Refused \/ S6Wake \/ S6SecondPasses
SpecS6 == InitS6 /\ [][NextS6]_vars

\* The reconnect attempts the scenario states, and those of the code: the
\* waits 1, 2, 4, 8 and 16 s after the drop at 10 s end at 11, 13, 17, 25
\* and 41 s.
S6Stated == <<11, 13, 17, 25, 40>>
S6Actual == <<11, 13, 17, 25, 41>>

\* The k-th attempt after the drop begins at times[k], for k up to 5.
S6AttemptsAt(times) ==
    \A s \in BoSymbols :
        (/\ bo_pc[s] = "connecting"
         /\ bo_streak[s] >= 1 /\ bo_streak[s] <= Len(times)) =>
            bo_attempt_at[s] = Some(times[bo_streak[s]])

\* C16 as stated: after the drop at t = 10 s the reconnect attempts happen at
\* t = 11, 13, 17, 25 and 40 s.
C16_AsStated == S6AttemptsAt(S6Stated)

\* C16 amended: after the drop at t = 10 s the reconnect attempts happen at
\* t = 11, 13, 17, 25 and 41 s (the fifth follows the fourth by the 16 s
\* wait).
C16_Amended == S6AttemptsAt(S6Actual)

\* The fifth attempt after the drop has begun.
C16_Witness ==
    /\ bo_pc[S6Scenario.symbol] = "connecting"
    /\ bo_streak[S6Scenario.symbol] = 5
    /\ bo_last_wait[S6Scenario.symbol] = Some(16)

-----------------------------------------------------------------------------
(* Starting and stopping the live feed: start_websocket / stop_websocket
   (app.py) and SyncWebSocketClient.start / stop with the background thread
   and the _connect_symbol task of one symbol (websocket_client.py).  The
   steps of the main thread, of each client's thread and of the exchange
   interleave freely; the length of the backoff sleeps plays no part
   here. *)

MaxTrades == 2

WsSymbol == "BTC"

\* The n-th trade frame the exchange produces for the symbol; trade times
\* increase with n.
TradeFrame(n) ==
    LiveMsg(Some("trade"), Some(n * TickStepMs), None, Some(WsSymbol),
            Some(Num(1)), Some(Num(1)))

WsOthersUnchanged ==
    UNCHANGED <<alertVars, s4Vars, rsVars, storeVars, gsVars, extNotWs>>

\* start_websocket(symbols, timeframe): a new client, its thread launched
SyncStart(c) ==
    /\ ~ws_started[c]
    /\ ws_thread' = [ws_thread EXCEPT ![c] = "launched"]
    /\ ws_started' = [ws_started EXCEPT ![c] = TRUE]

AppStart ==
    /\ ~app_is_running
    /\ ws_created < MaxClients
    /\ LET c == ws_created + 1
       IN  /\ SyncStart(c)
           /\ ws_created' = c
           /\ app_ws_client' = Some(c)
           /\ app_is_running' = TRUE
    /\ UNCHANGED <<ws_running, ws_loop, ws_task, ws_queue, ws_stopped,
                   ws_dispatched, src_count>>
    /\ WsOthersUnchanged

\* SyncWebSocketClient.stop(): the flag is cleared; disconnect() and
\* loop.stop() are run only on a loop that is running.
SyncStop(c) ==
    /\ ws_started[c]
    /\ IF ws_loop[c] = "running"
          THEN /\ ws_running' = [ws_running EXCEPT ![c] = FALSE]
               /\ ws_queue' = [ws_queue EXCEPT ![c] = <<>>]
               /\ ws_task' = [ws_task EXCEPT ![c] =
                                 IF @ \in {"none", "done"} THEN @
                                 ELSE "cancelled"]
               /\ ws_loop' = [ws_loop EXCEPT ![c] = "closed"]
               /\ ws_thread' = [ws_thread EXCEPT ![c] = "done"]
          ELSE /\ ws_running' = [ws_running EXCEPT ![c] = FALSE]
               /\ UNCHANGED <<ws_queue, ws_task, ws_loop, ws_thread>>
    /\ ws_started' = [ws_started EXCEPT ![c] = FALSE]
    /\ ws_stopped' = [ws_stopped EXCEPT ![c] = TRUE]

\* stop_websocket()
AppStop ==
    /\ app_ws_client # None
    /\ SyncStop(app_ws_client[1])
    /\ app_ws_client' = None
    /\ app_is_running' = FALSE
    /\ UNCHANGED <<ws_created, ws_dispatched, src_count>>
    /\ WsOthersUnchanged

\* run_loop: self._loop = asyncio.new_event_loop()
ThreadNewLoop(c) ==
    /\ ws_thread[c] = "launched"
    /\ ws_thread' = [ws_thread EXCEPT ![c] = "loop_set"]
    /\ ws_loop' = [ws_loop EXCEPT ![c] = "created"]
    /\ UNCHANGED <<app_ws_client, app_is_running, ws_created, ws_started,
                   ws_running, ws_task, ws_queue, ws_stopped, ws_dispatched,
                   src_count>>
    /\ WsOthersUnchanged

\* run_loop: run_until_complete(connect(symbols)) begins; connect sets the
\* flag and creates the task, then sleeps.
ThreadConnect(c) ==
    /\ ws_thread[c] = "loop_set"
    /\ ws_thread' = [ws_thread EXCEPT ![c] = "connect"]
    /\ ws_loop' = [ws_loop EXCEPT ![c] = "running"]
    /\ ws_running' = [ws_running EXCEPT ![c] = TRUE]
    /\ ws_task' = [ws_task EXCEPT ![c] = "loop"]
    /\ UNCHANGED <<app_ws_client, app_is_running, ws_created, ws_started,
                   ws_queue, ws_stopped, ws_dispatched, src_count>>
    /\ WsOthersUnchanged

\* run_loop: run_until_complete has returned, run_forever not yet begun.
ThreadConnectReturns(c) ==
    /\ ws_thread[c] = "connect"
    /\ ws_thread' = [ws_thread EXCEPT ![c] = "between"]
    /\ ws_loop' = [ws_loop EXCEPT ![c] = "created"]
    /\ UNCHANGED <<app_ws_client, app_is_running, ws_created, ws_started,
                   ws_running, ws_task, ws_queue, ws_stopped, ws_dispatched,
                   src_count>>
    /\ WsOthersUnchanged

\* run_loop: self._loop.run_forever()
ThreadRunForever(c) ==
    /\ ws_thread[c] = "between"
    /\ ws_thread' = [ws_thread EXCEPT ![c] = "forever"]
    /\ ws_loop' = [ws_loop EXCEPT ![c] = "running"]
    /\ UNCHANGED <<app_ws_client, app_is_running, ws_created, ws_started,
                   ws_running, ws_task, ws_queue, ws_stopped, ws_dispatched,
                   src_count>>
    /\ WsOthersUnchanged

WsTaskOnly ==
    /\ UNCHANGED <<app_ws_client, app_is_running, ws_created, ws_started,
                   ws_running, ws_loop, ws_thread, ws_stopped, src_count>>

\* _connect_symbol: `while self._running:` entered, websockets.connect
\* begins; or the loop is left.
WsTaskLoop(c) ==
    /\ ws_loop[c] = "running"
    /\ ws_task[c] = "loop"
    /\ ws_task' = [ws_task EXCEPT ![c] =
                      IF ws_running[c] THEN "connecting" ELSE "done"]
    /\ UNCHANGED <<ws_queue, ws_dispatched>>
    /\ WsTaskOnly
    /\ WsOthersUnchanged

\* _connect_symbol: the connection is established.
WsTaskEstablished(c) ==
    /\ ws_loop[c] = "running"
    /\ ws_task[c] = "connecting"
    /\ ws_task' = [ws_task EXCEPT ![c] = "connected"]
    /\ ws_queue' = [ws_queue EXCEPT ![c] = <<>>]
    /\ UNCHANGED ws_dispatched
    /\ WsTaskOnly
    /\ WsOthersUnchanged

\* _connect_symbol: the attempt fails, or the connection is closed; after
\* the backoff sleep (taken if the flag is set) the task is at its `while`
\* again.
WsTaskBroken(c) ==
    /\ ws_loop[c] = "running"
    /\ ws_task[c] \in {"connecting", "connected"}
    /\ ws_task' = [ws_task EXCEPT ![c] = "loop"]
    /\ ws_queue' = [ws_queue EXCEPT ![c] = <<>>]
    /\ UNCHANGED ws_dispatched
    /\ WsTaskOnly
    /\ WsOthersUnchanged

\* _connect_symbol: `async for message in ws` yields a frame; the flag is
\* checked and _handle_message passes the tick to on_tick, which is
\* _global_state.add_tick(tick, timeframe).
WsTaskReceive(c) ==
    /\ ws_loop[c] = "running"
    /\ ws_task[c] = "connected"
    /\ ws_queue[c] # <<>>
    /\ LET tick == normalize_tick(Head(ws_queue[c]))
       IN  IF ~ws_running[c]
              THEN /\ ws_task' = [ws_task EXCEPT ![c] = "done"]
                   /\ ws_queue' = [ws_queue EXCEPT ![c] = <<>>]
                   /\ UNCHANGED <<ws_dispatched, rsVars, storeVars, gsVars>>
              ELSE /\ ws_queue' = [ws_queue EXCEPT ![c] = Tail(@)]
                   /\ UNCHANGED ws_task
                   /\ IF tick = None
                         THEN UNCHANGED <<ws_dispatched, rsVars, storeVars,
                                          gsVars>>
                         ELSE /\ ws_dispatched' =
                                    [ws_dispatched EXCEPT ![c] = @ + 1]
                              /\ GsAddTick(tick[1], ResamplerTimeframe)
    /\ WsTaskOnly
    /\ UNCHANGED <<alertVars, s4Vars, extNotWs>>

\* The exchange produces the next trade; every open connection gets it.
SourceTrade ==
    /\ src_count < MaxTrades
    /\ src_count' = src_count + 1
    /\ ws_queue' = [c \in Clients |->
                       IF ws_task[c] = "connected"
                          THEN Append(ws_queue[c], TradeFrame(src_count + 1))
                          ELSE ws_queue[c]]
    /\ UNCHANGED <<app_ws_client, app_is_running, ws_created, ws_started,
                   ws_running, ws_loop, ws_thread, ws_task, ws_stopped,
                   ws_dispatched>>
    /\ WsOthersUnchanged

WsThreadNewLoop == \E c \in Clients : ThreadNewLoop(c)
WsThreadConnect == \E c \in Clients : ThreadConnect(c)
WsThreadConnectReturns == \E c \in Clients : ThreadConnectReturns(c)
WsThreadRunForever == \E c \in Clients : ThreadRunForever(c)
WsLoop == \E c \in Clients : WsTaskLoop(c)
WsEstablished == \E c \in Clients : WsTaskEstablished(c)
WsBroken == \E c \in Clients : WsTaskBroken(c)
WsReceive == \E c \in Clients : WsTaskReceive(c)

InitFeed ==
    AlertInit /\ S4Idle /\ ResamplerInit /\ StoreIdle /\ ExtIdle
NextFeed ==
    \/ AppStart \/ AppStop
    \/ WsThreadNewLoop \/ WsThreadConnect \/ WsThreadConnectReturns
    \/ WsThreadRunForever
    \/ WsLoop \/ WsEstablished \/ WsBroken \/ WsReceive
    \/ SourceTrade
SpecFeed == InitFeed /\ [][NextFeed]_vars

\* Client c begins a connection attempt in this step.
AttemptBegins(c) == ws_task[c] # "connecting" /\ ws_task'[c] = "connecting"

\* Client c passes a tick to its on_tick callback in this step.
TickDispatched(c) == ws_dispatched'[c] # ws_dispatched[c]

\* C17: once stop() has returned for a client, the client begins no new
\* connection attempt and dispatches no further tick to its on_tick
\* callback, whatever its background thread had done when stop() ran.
C17_Cancelled ==
    [][\A c \in Clients :
          ws_stopped[c] => ~AttemptBegins(c) /\ ~TickDispatched(c)]_vars

\* The ticks of a list are in the order the exchange produced them: trade
\* times strictly increase, so no tick comes twice or before an earlier one.
InProducerOrder(ticks) ==
    \A i \in 1..Len(ticks), j \in 1..Len(ticks) :
        i < j => ticks[i].timestamp < ticks[j].timestamp

\* C18: the store's tick ring and the resampler receive the ticks of the
\* symbol in the order the exchange produced them, across reconnects and
\* across stop followed by start.
C18_ProducerOrder ==
    /\ InProducerOrder(fed)
    /\ WsSymbol \in DOMAIN added => InProducerOrder(added[WsSymbol])

-----------------------------------------------------------------------------
(* One live connection: `async for message in ws` hands every frame to
   _handle_message, which parses it, normalises it and calls the on_tick
   callbacks (websocket_client.py, data_normalizer.py) *)

MaxHmFrames == 3
MaxCallbacks == 2

\* What an on_tick callback does when called
CallbackKinds == {"returns", "raises"}

\* A text frame: its text is not JSON, or is JSON for a value that is not
\* an object, or is JSON for an object; s_is_text tells whether the
\* object's "s" is a string (else it is a number).
NotJson == [json |-> "invalid"]
JsonArray == [json |-> "array"]
JsonObject(raw, s_is_text) ==
    [json |-> "object", raw |-> raw, s_is_text |-> s_is_text]

HmFrameKinds ==
    { NotJson, JsonArray,
      JsonObject(LiveMsg(Some("trade"), Some(TickStepMs), None, Some("BTC"),
                         Some(Num(1)), Some(Num(2))), TRUE),
      JsonObject(LiveMsg(Some("trade"), Some(TickStepMs), None, Some("BTC"),
                         Some(Num(1)), Some(Num(2))), FALSE),
      JsonObject(LiveMsg(Some("trade"), Some(TickStepMs), None, Some("BTC"),
                         Some(NotANumber), Some(Num(2))), TRUE),
      JsonObject(LiveMsg(Some("depthUpdate"), Some(TickStepMs), None,
                         Some("BTC"), Some(Num(1)), Some(Num(2))), TRUE) }

\* normalize_tick(data) on whatever json.loads returned: the result, or the
\* exception that leaves it.  Its except clause holds KeyError, ValueError
\* and TypeError; `.get` on a value that is not a dict and `.upper()` on a
\* symbol that is not a string raise AttributeError.
NormalizeParsed(frame) ==
    IF frame.json # "object"
       THEN [raised |-> Some("AttributeError"), tick |-> None]
    ELSE IF /\ frame.raw.e = Some("trade")
            /\ TradeTimeMs(frame.raw) # None
            /\ ~frame.s_is_text
       THEN [raised |-> Some("AttributeError"), tick |-> None]
    ELSE [raised |-> None, tick |-> normalize_tick(frame.raw)]

\* `for callback in self._callbacks:` from callback i on: each call is in
\* its own try/except Exception, so the loop goes on after a raise.
RECURSIVE CallbacksInvoked(_, _)
CallbacksInvoked(callbacks, i) ==
    IF i > Len(callbacks) THEN <<>>
    ELSE <<i>> \o CallbacksInvoked(callbacks, i + 1)

\* _handle_message(message): the exception that leaves it (Optional), the
\* tick it made and the callbacks it invoked.  Only json.JSONDecodeError is
\* caught around the parse and the normalisation.
HandleMessage(frame, callbacks) ==
    IF frame.json = "invalid"
       THEN [raised |-> None, tick |-> None, invoked |-> <<>>]
    ELSE LET n == NormalizeParsed(frame)
         IN  IF n.raised # None
                THEN [raised |-> n.raised, tick |-> None, invoked |-> <<>>]
             ELSE IF n.tick = None
                THEN [raised |-> None, tick |-> None, invoked |-> <<>>]
             ELSE [raised |-> None, tick |-> n.tick,
                   invoked |-> CallbacksInvoked(callbacks, 1)]

HmOthersUnchanged ==
    UNCHANGED <<alertVars, s4Vars, rsVars, storeVars, extNotHm>>

\* on_tick(callback)
HmOnTick ==
    /\ Len(hm_callbacks) < MaxCallbacks
    /\ \E kind \in CallbackKinds :
          hm_callbacks' = Append(hm_callbacks, kind)
    /\ UNCHANGED <<hm_conn, hm_tick_count, hm_frames, hm_last, hm_invoked>>
    /\ HmOthersUnchanged

\* _connect_symbol: the connection yields a frame; an exception leaving
\* _handle_message leaves the `async with` (the socket is closed) and is
\* caught by `except Exception` of the reconnect loop.
HmFrame ==
    /\ hm_conn = "open"
    /\ hm_frames < MaxHmFrames
    /\ \E frame \in HmFrameKinds :
          LET r == HandleMessage(frame, hm_callbacks)
          IN  /\ hm_conn' = IF r.raised # None THEN "closed" ELSE "open"
              /\ hm_tick_count' =
                    IF r.tick # None THEN hm_tick_count + 1
                    ELSE hm_tick_count
              /\ hm_last' = Some(frame)
              /\ hm_invoked' = r.invoked
    /\ hm_frames' = hm_frames + 1
    /\ UNCHANGED hm_callbacks
    /\ HmOthersUnchanged

\* _connect_symbol: after the backoff sleep a new connection is established.
HmReconnect ==
    /\ hm_conn = "closed"
    /\ hm_conn' = "open"
    /\ UNCHANGED <<hm_callbacks, hm_tick_count, hm_frames, hm_last,
                   hm_invoked>>
    /\ HmOthersUnchanged

InitIngest ==
    AlertInit /\ S4Idle /\ ResamplerInit /\ StoreIdle /\ ExtIdle
NextIngest == HmOnTick \/ HmFrame \/ HmReconnect
SpecIngest == InitIngest /\ [][NextIngest]_vars

\* The frame carries a trade that normalises to a tick.
CarriesTick(frame) ==
    /\ frame.json = "object"
    /\ frame.s_is_text
    /\ normalize_tick(frame.raw) # None

\* C21: whatever frame arrives (invalid JSON, JSON that is not an object,
\* wrong field types) and whatever the callbacks do, no exception leaves
\* _handle_message: the connection is still open after the frame, and for
\* a frame that carries a tick every registered callback has been invoked,
\* in order.
C21_Isolated ==
    hm_last # None =>
        /\ hm_conn = "open"
        /\ CarriesTick(hm_last[1]) =>
              hm_invoked = [i \in 1..Len(hm_callbacks) |-> i]

-----------------------------------------------------------------------------
(* on_bar subscribers of one resampler: add_tick appends the completed bar
   and then calls every subscriber (resampler.py) *)

MaxSubscribedTicks == 3

\* `for callback in self._callbacks:` from subscriber i on, without the
\* try/except: the first raise ends the loop and leaves add_tick.
RECURSIVE NotifySubscribersUncaught(_, _, _, _)
NotifySubscribersUncaught(callbacks, i, bar, completed) ==
    IF i > Len(callbacks) THEN [log |-> <<>>, raised |-> FALSE]
    ELSE LET entry == [cb |-> i, bar |-> bar,
                       listed |-> \E k \in 1..Len(completed) :
                                      completed[k] = bar]
         IN  IF callbacks[i] = "raises"
                THEN [log |-> <<entry>>, raised |-> TRUE]
                ELSE LET rest == NotifySubscribersUncaught(
                                     callbacks, i + 1, bar, completed)
                     IN  [log |-> <<entry>> \o rest.log,
                          raised |-> rest.raised]

\* `for callback in self._callbacks: try: callback(completed_bar)
\* except Exception: pass` from subscriber i on; completed is
\* self._completed_bars[symbol] at that point.  The calls made, and whether
\* an exception leaves the loop.
RECURSIVE NotifySubscribers(_, _, _, _)
NotifySubscribers(callbacks, i, bar, completed) ==
    IF i > Len(callbacks) THEN [log |-> <<>>, raised |-> FALSE]
    ELSE LET entry == [cb |-> i, bar |-> bar,
                       listed |-> \E k \in 1..Len(completed) :
                                      completed[k] = bar]
             rest == NotifySubscribers(callbacks, i + 1, bar, completed)
         IN  [log |-> <<entry>> \o rest.log, raised |-> rest.raised]

\* The bar add_tick(tick) completes in the current state (Optional)
CompletedBy(tick) ==
    LET symbol == tick.symbol
    IN  IF /\ symbol \in DOMAIN builders
           /\ symbol \in DOMAIN current_bar_time
           /\ RollsOver(Align(tick.timestamp), current_bar_time[symbol])
           THEN BuilderBuild(builders[symbol], current_bar_time[symbol])
           ELSE None

\* TimeSeriesResampler.add_tick(tick) with subscribers: an exception that
\* leaves the subscriber loop leaves add_tick after the append, before the
\* builder is reset and the tick added, and nothing is returned.
SubscribedAddTick(tick) ==
    LET symbol == tick.symbol
        bar == CompletedBy(tick)
        listed == IF bar = None THEN CompletedOf(completed_bars, symbol)
                  ELSE Append(CompletedOf(completed_bars, symbol), bar[1])
        n == IF bar = None THEN [log |-> <<>>, raised |-> FALSE]
             ELSE NotifySubscribers(bar_callbacks, 1, bar[1], listed)
    IN  /\ rs_notified' = rs_notified \o n.log
        /\ IF n.raised
              THEN /\ completed_bars' = DictSet(completed_bars, symbol, listed)
                   /\ last_bar' = None
                   /\ fed' = Append(fed, tick)
                   /\ UNCHANGED <<builders, current_bar_time>>
              ELSE ResamplerAddTick(tick)

\* on_bar(callback)
SubOnBar ==
    /\ Len(bar_callbacks) < MaxCallbacks
    /\ \E kind \in CallbackKinds : bar_callbacks' = Append(bar_callbacks, kind)
    /\ UNCHANGED <<gs_tick_count, gs_last_update, gs_resamplers>>
    /\ UNCHANGED <<alertVars, s4Vars, rsVars, storeVars, subVars, extNotSub>>

SubAddTick ==
    /\ Len(fed) < MaxSubscribedTicks
    /\ \E tick \in PipelineTicks : SubscribedAddTick(tick)
    /\ UNCHANGED <<alertVars, s4Vars, storeVars, gsVars, extNotSub>>

InitSubscribers ==
    AlertInit /\ S4Idle /\ ResamplerInit /\ StoreIdle /\ ExtIdle
NextSubscribers == SubOnBar \/ SubAddTick
SpecSubscribers == InitSubscribers /\ [][NextSubscribers]_vars

\* The calls add_tick owes for a completed bar: every subscriber once, in
\* registration order, with the bar already in the completed list.
CallsOwed(bar) ==
    IF bar = None THEN <<>>
    ELSE [i \in 1..Len(bar_callbacks) |->
             [cb |-> i, bar |-> bar[1], listed |-> TRUE]]

\* C22: in every add_tick the subscribers are called during the call, in
\* registration order, once each per completed bar and with the bar
\* already in the completed list, whether or not some of them raise; the
\* completed bar is returned and the triggering tick is the first tick of
\* the new builder.
C22_Subscribers ==
    [][fed' # fed =>
          LET tick == fed'[Len(fed')]
              bar == CompletedBy(tick)
          IN  /\ rs_notified' = rs_notified \o CallsOwed(bar)
              /\ last_bar' = bar
              /\ bar # None =>
                    /\ completed_bars'[tick.symbol] =
                          Append(CompletedOf(completed_bars, tick.symbol),
                                 bar[1])
                    /\ builders'[tick.symbol] =
                          BuilderAddTick(
                              BuilderReset(builders[tick.symbol]), tick)]_vars

\* A bar has been returned by an add_tick whose first subscriber raises
\* and whose second subscriber was called for that bar.
C22_Witness ==
    /\ last_bar # None
    /\ Len(bar_callbacks) = 2 /\ bar_callbacks[1] = "raises"
    /\ Len(rs_notified) >= 2
    /\ rs_notified[Len(rs_notified)] =
          [cb |-> 2, bar |-> last_bar[1], listed |-> TRUE]

-----------------------------------------------------------------------------
(* on_alert subscribers of one AlertEngine, called by one thread:
   check_zscore and check_custom call every subscriber for every alert
   they emit (rule_engine.py) *)

MaxAlertCalls == 2

\* `for callback in self._callbacks:` from subscriber i on, without the
\* try/except: the first raise ends the loop and leaves the check.
RECURSIVE NotifyAlertUncaught(_, _, _)
NotifyAlertUncaught(callbacks, i, alert) ==
    IF i > Len(callbacks) THEN [log |-> <<>>, raised |-> FALSE]
    ELSE IF callbacks[i] = "raises"
       THEN [log |-> <<[cb |-> i, alert |-> alert]>>, raised |-> TRUE]
    ELSE LET rest == NotifyAlertUncaught(callbacks, i + 1, alert)
         IN  [log |-> <<[cb |-> i, alert |-> alert]>> \o rest.log,
              raised |-> rest.raised]

\* `for callback in self._callbacks: try: callback(alert)
\* except Exception: pass` from subscriber i on: the calls made, and
\* whether an exception leaves the loop.
RECURSIVE NotifyAlert(_, _, _)
NotifyAlert(callbacks, i, alert) ==
    IF i > Len(callbacks) THEN [log |-> <<>>, raised |-> FALSE]
    ELSE LET rest == NotifyAlert(callbacks, i + 1, alert)
         IN  [log |-> <<[cb |-> i, alert |-> alert]>> \o rest.log,
              raised |-> rest.raised]

\* The loop of check_zscore over self._rules from index i on, with the
\* subscribers: st carries the engine state, the calls made and whether an
\* exception has left the loop (which ends the check).
RECURSIVE CheckRulesNotifying(_, _, _, _, _, _)
CheckRulesNotifying(i, z, symbol, timestamp, callbacks, st) ==
    IF i > Len(rules) \/ st.raised THEN st
    ELSE LET st1 == CheckRules(<<rules[i]>>, 1, z, symbol, timestamp, st.eng)
             fired == Len(st1.triggered) > Len(st.eng.triggered)
             n == IF fired
                     THEN NotifyAlert(callbacks, 1,
                              st1.triggered[Len(st1.triggered)])
                     ELSE [log |-> <<>>, raised |-> FALSE]
         IN  CheckRulesNotifying(i + 1, z, symbol, timestamp, callbacks,
                 [eng |-> st1, notified |-> st.notified \o n.log,
                  raised |-> n.raised])

\* AlertEngine.check_zscore(zscore, symbol, timestamp) with subscribers: a
\* check that an exception leaves returns nothing.
CheckZscoreNotifying(z, symbol, timestamp) ==
    LET st == CheckRulesNotifying(1, z, symbol, timestamp, eng_callbacks,
                  [eng |-> [history |-> history, max_history |-> max_history,
                            last_triggered |-> last_triggered,
                            triggered |-> <<>>, fired |-> <<>>],
                   notified |-> <<>>, raised |-> FALSE])
    IN  /\ history' = st.eng.history
        /\ last_triggered' = st.eng.last_triggered
        /\ triggered' = IF st.raised THEN <<>> ELSE st.eng.triggered
        /\ emitted' = emitted \o st.eng.fired
        /\ al_notified' = al_notified \o st.notified
        /\ al_since_clear' =
              al_since_clear \o
                  [k \in 1..Len(st.eng.fired) |-> st.eng.fired[k].alert]
        /\ UNCHANGED <<rules, max_history>>

\* AlertEngine.check_custom(value, condition, message, cooldown_key=...,
\* timestamp=...): holds tells what condition(value) returns; the list
\* `triggered` of the model holds the alert returned, if any.
CheckCustomNotifying(value, holds, cooldown_key, timestamp) ==
    LET keyed == cooldown_key # None /\ cooldown_key # Some("")
        alert == [timestamp |-> timestamp, alert_type |-> "custom",
                  message |-> <<"custom", value>>, severity |-> "warning",
                  value |-> value, symbol |-> None]
        n == NotifyAlert(eng_callbacks, 1, alert)
    IN  IF \/ ~holds
           \/ /\ keyed
              /\ cooldown_key[1] \in DOMAIN last_triggered
              /\ timestamp - last_triggered[cooldown_key[1]] < DefaultCooldown
           THEN /\ triggered' = <<>>
                /\ UNCHANGED <<rules, history, max_history, last_triggered,
                               emitted, al_notified, al_since_clear>>
           ELSE /\ history' = DequeAppend(history, alert, max_history)
                /\ last_triggered' =
                      IF keyed
                         THEN DictSet(last_triggered, cooldown_key[1],
                                      timestamp)
                         ELSE last_triggered
                /\ al_notified' = al_notified \o n.log
                /\ al_since_clear' = Append(al_since_clear, alert)
                /\ triggered' = IF n.raised THEN <<>> ELSE <<alert>>
                /\ emitted' = Append(emitted,
                      [rule |-> "custom", key |-> cooldown_key,
                       cooldown |-> DefaultCooldown, alert |-> alert])
                /\ UNCHANGED <<rules, max_history>>

\* on_alert(callback)
AlsOnAlert ==
    /\ Len(eng_callbacks) < MaxCallbacks
    /\ \E kind \in CallbackKinds :
          eng_callbacks' = Append(eng_callbacks, kind)
    /\ UNCHANGED <<eng_lock, eng_stack, eng_calls, alsVars>>
    /\ UNCHANGED <<alertVars, s4Vars, rsVars, storeVars, extNotAls>>

AlsCheckZscore ==
    /\ eng_calls < MaxAlertCalls
    /\ eng_calls' = eng_calls + 1
    /\ \E z \in ZValues, symbol \in AlertSymbols, timestamp \in AlertTimes :
          CheckZscoreNotifying(z, symbol, timestamp)
    /\ UNCHANGED <<eng_lock, eng_stack, eng_callbacks, al_last_call>>
    /\ UNCHANGED <<s4Vars, rsVars, storeVars, extNotAls>>

AlsCheckCustom ==
    /\ eng_calls < MaxAlertCalls
    /\ eng_calls' = eng_calls + 1
    /\ \E holds \in BOOLEAN, cooldown_key \in {None, Some("k")},
          timestamp \in AlertTimes :
          CheckCustomNotifying(7, holds, cooldown_key, timestamp)
    /\ UNCHANGED <<eng_lock, eng_stack, eng_callbacks, al_last_call>>
    /\ UNCHANGED <<s4Vars, rsVars, storeVars, extNotAls>>

InitAlertSubs ==
    AlertInit /\ S4Idle /\ ResamplerInit /\ StoreIdle /\ ExtIdle
NextAlertSubs == AlsOnAlert \/ AlsCheckZscore \/ AlsCheckCustom
SpecAlertSubs == InitAlertSubs /\ [][NextAlertSubs]_vars

\* The calls a check owes for the alerts it emitted: for each alert in
\* turn, every subscriber once, in registration order.
RECURSIVE AlertCallsOwed(_, _)
AlertCallsOwed(fired, k) ==
    IF k > Len(fired) THEN <<>>
    ELSE [i \in 1..Len(eng_callbacks) |->
             [cb |-> i, alert |-> fired[k].alert]]
         \o AlertCallsOwed(fired, k + 1)

\* C23: for every alert a check emits, whatever the subscribers do
\* (return or raise), the alert is in the history, its cooldown timestamp
\* is recorded under its key, the alert is returned, and every subscriber
\* has been called with it, in registration order.
C23_AlertSubscribers ==
    [][eng_calls' # eng_calls =>
          LET fired == SubSeq(emitted', Len(emitted) + 1, Len(emitted'))
          IN  /\ \A k \in 1..Len(fired) :
                    /\ \E h \in 1..Len(history') :
                          history'[h] = fired[k].alert
                    /\ \E r \in 1..Len(triggered') :
                          triggered'[r] = fired[k].alert
                    /\ fired[k].rule # "custom" =>
                          last_triggered'[fired[k].key] =
                              fired[k].alert.timestamp
                    /\ (fired[k].rule = "custom" /\ fired[k].key # None) =>
                          last_triggered'[fired[k].key[1]] =
                              fired[k].alert.timestamp
              /\ Len(triggered') = Len(fired)
              /\ al_notified' = al_notified \o AlertCallsOwed(fired, 1)]_vars

\* A check has emitted two alerts with a raising subscriber registered
\* before a second subscriber, and the second was called for the last
\* alert.
C23_Witness ==
    /\ Len(triggered) = 2
    /\ Len(eng_callbacks) = 2 /\ eng_callbacks[1] = "raises"
    /\ Len(al_notified) >= 4
    /\ al_notified[Len(al_notified)] = [cb |-> 2, alert |-> triggered[2]]

-----------------------------------------------------------------------------
(* The alert history ring: AlertEngine(max_history=m) for small m and for
   the default, fed by check_zscore and check_custom and cleared by
   clear_history and clear_all *)

MaxHistoryEmitted == 2

\* The values of max_history the engine is constructed with
HistorySizes == {0, 2, DefaultMaxHistory}

\* AlertEngine(max_history=m)
HistoryInit ==
    /\ rules = DEFAULT_RULES
    /\ history = <<>>
    /\ max_history \in HistorySizes
    /\ last_triggered = EmptyDict
    /\ triggered = <<>>
    /\ emitted = <<>>

\* The timestamps of the checks: within and past every cooldown
HistoryTimes == {0, 120}

HistOthersUnchanged ==
    UNCHANGED <<s4Vars, rsVars, storeVars, engVars, extNotAls>>

HistCheckZscore ==
    /\ Len(emitted) < MaxHistoryEmitted
    /\ \E z \in ZValues, timestamp \in HistoryTimes :
          /\ CheckZscoreNotifying(z, None, timestamp)
          /\ al_last_call' = [op |-> "check_zscore", z |-> z,
                              symbol |-> None, timestamp |-> timestamp]
    /\ HistOthersUnchanged

HistCheckCustom ==
    /\ Len(emitted) < MaxHistoryEmitted
    /\ \E cooldown_key \in {None, Some("k")}, timestamp \in HistoryTimes :
          CheckCustomNotifying(7, TRUE, cooldown_key, timestamp)
    /\ al_last_call' = [op |-> "check_custom"]
    /\ HistOthersUnchanged

HistClearHistory ==
    /\ ClearHistory
    /\ al_since_clear' = <<>>
    /\ al_last_call' = [op |-> "clear_history"]
    /\ UNCHANGED al_notified
    /\ HistOthersUnchanged

HistClearAll ==
    /\ ClearAll
    /\ al_since_clear' = <<>>
    /\ al_last_call' = [op |-> "clear_all"]
    /\ UNCHANGED al_notified
    /\ HistOthersUnchanged

InitHistory ==
    HistoryInit /\ S4Idle /\ ResamplerInit /\ StoreIdle /\ ExtIdle
NextHistory ==
    HistCheckZscore \/ HistCheckCustom \/ HistClearHistory \/ HistClearAll
SpecHistory == InitHistory /\ [][NextHistory]_vars

\* The last n items of a list
LastOf(list, n) ==
    IF Len(list) <= n THEN list
    ELSE SubSeq(list, Len(list) - n + 1, Len(list))

\* C24: the alert history never holds more than max_history alerts and
\* always equals the last max_history alerts emitted since the last clear,
\* so at capacity the oldest alert is the one evicted.
C24_HistoryRing ==
    /\ Len(history) <= max_history
    /\ history = LastOf(al_since_clear, max_history)

\* An engine of capacity 2 has emitted more than two alerts since the last
\* clear and holds two.
C24_Witness ==
    /\ max_history = 2
    /\ Len(al_since_clear) > 2
    /\ Len(history) = 2

\* The rules check_zscore(z, symbol, timestamp) lets through in the current
\* state: the condition holds and the key is not in its cooldown.
RulesDue(z, symbol, timestamp) ==
    {i \in 1..Len(rules) :
        /\ Condition(rules[i], z)
        /\ ~InCooldown(last_triggered, RuleKey(rules[i], symbol), timestamp,
                       rules[i])}

\* The rules whose condition holds for z
RulesMatching(z) == {i \in 1..Len(rules) : Condition(rules[i], z)}

\* The rules the last check_zscore call fired
RulesFired ==
    {i \in 1..Len(rules) :
        \E k \in 1..Len(triggered') :
            triggered'[k] = MakeAlert(rules[i], al_last_call'.z,
                                      al_last_call'.symbol,
                                      al_last_call'.timestamp)}

\* C25: clear_history empties the history and leaves the cooldown map and
\* the rules as they were, so a check right after it fires exactly the
\* rules that were due before it; clear_all empties the history and the
\* cooldown map and leaves the rules, so a check right after it fires every
\* rule whose condition holds.
C25_ClearFrames ==
    [][/\ al_last_call'.op = "clear_history" =>
             /\ history' = <<>>
             /\ last_triggered' = last_triggered
             /\ rules' = rules
       /\ al_last_call'.op = "clear_all" =>
             /\ history' = <<>>
             /\ last_triggered' = EmptyDict
             /\ rules' = rules
       /\ (al_last_call.op = "clear_all"
             /\ al_last_call'.op = "check_zscore") =>
             RulesFired = RulesMatching(al_last_call'.z)
       /\ (al_last_call.op = "clear_history"
             /\ al_last_call'.op = "check_zscore") =>
             RulesFired = RulesDue(al_last_call'.z, al_last_call'.symbol,
                                   al_last_call'.timestamp)]_vars

\* A rule fired, the history was cleared by clear_history, and the same
\* check made again at the same instant fired nothing.
C25_Witness ==
    /\ max_history = 2
    /\ al_last_call.op = "check_zscore"
    /\ triggered = <<>> /\ history = <<>>
    /\ Len(emitted) = 1
    /\ al_last_call.z = emitted[1].alert.value
    /\ al_last_call.timestamp = emitted[1].alert.timestamp

-----------------------------------------------------------------------------
(* Replay: an engine that has been used and then reset with clear_all is
   given the same check_zscore calls as a fresh AlertEngine() *)

MaxBefore == 2
MaxReplayed == 2

\* The z values of the replayed checks: no rule, one rule and two rules
RpZValues == {0, 25, 35}

RpOthersUnchanged == UNCHANGED <<s4Vars, rsVars, storeVars, extNotRp>>

\* A check_zscore call before clear_all
RpCheckBefore ==
    /\ ~rp_cleared
    /\ rp_calls < MaxBefore
    /\ rp_calls' = rp_calls + 1
    /\ \E z \in RpZValues, timestamp \in HistoryTimes :
          CheckZscore(z, None, timestamp)
    /\ UNCHANGED <<rp_cleared, rp_fresh, rp_replayed>>
    /\ RpOthersUnchanged

\* clear_all()
RpClearAll ==
    /\ ~rp_cleared
    /\ rp_cleared' = TRUE
    /\ ClearAll
    /\ UNCHANGED <<rp_calls, rp_fresh, rp_replayed>>
    /\ RpOthersUnchanged

\* The same check_zscore call made to the engine and to the fresh engine
RpCheckBoth ==
    /\ rp_cleared
    /\ rp_replayed < MaxReplayed
    /\ rp_replayed' = rp_replayed + 1
    /\ \E z \in RpZValues, timestamp \in HistoryTimes :
          /\ CheckZscore(z, None, timestamp)
          /\ LET st == CheckRules(DEFAULT_RULES, 1, z, None, timestamp,
                           [history |-> rp_fresh.history,
                            max_history |-> DefaultMaxHistory,
                            last_triggered |-> rp_fresh.last_triggered,
                            triggered |-> <<>>, fired |-> <<>>])
             IN  rp_fresh' = [history |-> st.history,
                              last_triggered |-> st.last_triggered,
                              triggered |-> st.triggered]
    /\ UNCHANGED <<rp_calls, rp_cleared>>
    /\ RpOthersUnchanged

InitReplay == AlertInit /\ S4Idle /\ ResamplerInit /\ StoreIdle /\ ExtIdle
NextReplay == RpCheckBefore \/ RpClearAll \/ RpCheckBoth
SpecReplay == InitReplay /\ [][NextReplay]_vars

\* C26: after clear_all, whatever checks came before it, the engine given
\* the calls a fresh engine is given returns the same alerts at every call
\* and holds the same history.
C26_Replay ==
    rp_cleared =>
        /\ history = rp_fresh.history
        /\ rp_replayed > 0 => triggered = rp_fresh.triggered

\* The second replayed check fired after checks before clear_all had put
\* its rule into a cooldown that would have suppressed it.
C26_Witness ==
    /\ rp_replayed = 2
    /\ triggered # <<>>
    /\ Len(history) = 2
    /\ \E i \in 1..Len(emitted) :
          /\ i <= Len(emitted) - 2
          /\ emitted[i].key = emitted[Len(emitted)].key
          /\ emitted[i].rule = emitted[Len(emitted)].rule
          /\ emitted[Len(emitted)].alert.timestamp
                 - emitted[i].alert.timestamp < emitted[i].cooldown

-----------------------------------------------------------------------------
(* Scenario S5: the ticks of two symbols are ingested live through
   GlobalState.add_tick; a second run replays the recording of those ticks
   with load_demo_data (app.py) *)

MaxS5Ticks == 3

\* The record of the NDJSON file a tick was written as
RecordOf(tick) ==
    ReplayRec(Some(tick.symbol), Some(Num(tick.timestamp)),
              Some(Num(tick.price)), Some(Num(tick.quantity)), None)

\* load_ndjson_data on the recording of the ticks from index i on
RECURSIVE LoadRecording(_, _)
LoadRecording(ticks, i) ==
    IF i > Len(ticks) THEN <<>>
    ELSE LET tick == normalize_from_ndjson(RecordOf(ticks[i]))
         IN  (IF tick = None THEN <<>> ELSE <<tick[1]>>)
             \o LoadRecording(ticks, i + 1)

\* TimeSeriesResampler.add_tick(tick) on a resampler rs given as a value:
\* the resampler afterwards and the bar returned.
ResamplerStep(rs, tick) ==
    LET symbol == tick.symbol
        bar_time == Align(tick.timestamp)
        isNew == symbol \notin DOMAIN rs.builders
        builders1 == IF isNew
                        THEN DictSet(rs.builders, symbol,
                                     NewBarBuilder(symbol))
                        ELSE rs.builders
        cbt1 == IF isNew
                   THEN DictSet(rs.current_bar_time, symbol, bar_time)
                   ELSE rs.current_bar_time
        rolls == RollsOver(bar_time, cbt1[symbol])
        completed_bar == IF rolls
                            THEN BuilderBuild(builders1[symbol], cbt1[symbol])
                            ELSE None
        builder2 == IF rolls THEN BuilderReset(builders1[symbol])
                    ELSE builders1[symbol]
    IN  [builders |-> DictSet(builders1, symbol,
                              BuilderAddTick(builder2, tick)),
         current_bar_time |->
             IF rolls THEN DictSet(cbt1, symbol, bar_time) ELSE cbt1,
         bar |-> completed_bar]

\* load_demo_data, `for tick in ticks:` from index i on, for the resampler
\* of the one timeframe of the model: the store's dict and the resampler.
RECURSIVE DemoProcess(_, _, _, _)
DemoProcess(ticks, i, d, rs) ==
    IF i > Len(ticks) THEN [data |-> d, rs |-> rs]
    ELSE LET d1 == DataAfterAddTick(d, ticks[i], DefaultTicksMaxlen)
             r == ResamplerStep(rs, ticks[i])
             d2 == IF r.bar # None
                      THEN DataAfterAddBar(d1, r.bar[1], ResamplerTimeframe,
                                           DefaultBarsMaxlen)
                      ELSE d1
         IN  DemoProcess(ticks, i + 1, d2, r)

\* load_demo_data, `for symbol in resampler.symbols:` over the symbols left:
\* the current bar of each symbol is stored as well.
RECURSIVE DemoForceCompletion(_, _, _)
DemoForceCompletion(symbols, d, rs) ==
    IF symbols = {} THEN d
    ELSE LET symbol == CHOOSE x \in symbols : TRUE
             current_bar == BuilderBuild(rs.builders[symbol],
                                         rs.current_bar_time[symbol])
             d1 == IF current_bar # None
                      THEN DataAfterAddBar(d, current_bar[1],
                                           ResamplerTimeframe,
                                           DefaultBarsMaxlen)
                      ELSE d
         IN  DemoForceCompletion(symbols \ {symbol}, d1, rs)

\* load_demo_data(timeframe) on the recording of the ticks
LoadDemoData(ticks) ==
    LET loaded == LoadRecording(ticks, 1)
        p == DemoProcess(loaded, 1, EmptyDict,
                         [builders |-> EmptyDict,
                          current_bar_time |-> EmptyDict])
    IN  DemoForceCompletion(DOMAIN p.rs.builders, p.data, p.rs)

\* The live run ingests a tick.
S5AddTick ==
    /\ ~demo_loaded
    /\ gs_tick_count < MaxS5Ticks
    /\ \E tick \in PipelineTicks : GsAddTick(tick, ResamplerTimeframe)
    /\ UNCHANGED <<alertVars, s4Vars, s5Vars, extNotS5>>

\* The second run loads the recording of the ticks the live run ingested.
S5LoadDemo ==
    /\ ~demo_loaded
    /\ fed # <<>>
    /\ demo_loaded' = TRUE
    /\ demo_data' = LoadDemoData(fed)
    /\ UNCHANGED <<alertVars, s4Vars, rsVars, storeVars, gsVars, extNotS5>>

InitS5 == AlertInit /\ S4Idle /\ ResamplerInit /\ StoreIdle /\ ExtIdle
NextS5 == S5AddTick \/ S5LoadDemo
SpecS5 == InitS5 /\ [][NextS5]_vars

\* C27: after the replay, for each symbol the store of the replaying run
\* holds the bar list of the live run's store for the timeframe both
\* paths feed: same bars, same order, same multiplicity.
C27_SameBars ==
    demo_loaded =>
        \A sym \in PipelineSymbols :
            GetBarsOf(demo_data, sym, ResamplerTimeframe, None)
                = GetBarsOf(data, sym, ResamplerTimeframe, None)

-----------------------------------------------------------------------------
(* Bar alignment: _get_bar_timestamp of TimeSeriesResampler(timeframe) for
   every supported timeframe (resampler.py) *)

MaxBarIndex == 3

\* The keys of TIMEFRAME_SECONDS
Timeframes == {"1S", "1T", "5T", "15T", "1H"}

\* Offsets of a tick inside its interval, in ms: the first and the last
\* instant of the interval and two in between
OffsetsIn(width) == {0, 1, width \div 2, width - 1}

BtTickTimes(timeframe) ==
    LET width == 1000 * IntervalSeconds(timeframe)
    IN  {k * width + off : k \in 0..MaxBarIndex, off \in OffsetsIn(width)}

\* TimeSeriesResampler(timeframe) and a tick time
BtInit ==
    /\ bt_timeframe \in Timeframes
    /\ bt_tick_time \in BtTickTimes(bt_timeframe)
    /\ bt_bar_time = None
    /\ bt_prev_bar_time = None

BtOthersUnchanged ==
    UNCHANGED <<alertVars, s4Vars, rsVars, storeVars, extNotBt>>

\* _get_bar_timestamp(tick_time)
BtGetBarTimestamp ==
    /\ bt_bar_time = None
    /\ bt_bar_time' =
          Some(GetBarTimestamp(bt_tick_time, IntervalSeconds(bt_timeframe)))
    /\ UNCHANGED <<bt_timeframe, bt_tick_time, bt_prev_bar_time>>
    /\ BtOthersUnchanged

\* _get_bar_timestamp for a tick exactly at the end of the bar the last
\* call returned
BtBoundaryTick ==
    /\ bt_bar_time # None
    /\ bt_prev_bar_time = None
    /\ LET boundary == bt_bar_time[1] + 1000 * IntervalSeconds(bt_timeframe)
       IN  /\ bt_tick_time' = boundary
           /\ bt_bar_time' =
                 Some(GetBarTimestamp(boundary,
                                      IntervalSeconds(bt_timeframe)))
    /\ bt_prev_bar_time' = bt_bar_time
    /\ UNCHANGED bt_timeframe
    /\ BtOthersUnchanged

InitAlign ==
    /\ AlertInit /\ S4Idle /\ ResamplerInit /\ StoreIdle
    /\ ExtIdleExceptBt /\ BtInit /\ AnIdle /\ SnapIdle
NextAlign == BtGetBarTimestamp \/ BtBoundaryTick
SpecAlign == InitAlign /\ [][NextAlign]_vars

\* The timeframe's D in ms
BtWidth == 1000 * IntervalSeconds(bt_timeframe)

\* C28: for every supported timeframe D and tick time t the bar time is
\* floor(t / D) * D: a multiple of D from the epoch with
\* bar_start <= t < bar_start + D; and a tick exactly at bar_start + D gets
\* the bar starting at bar_start + D, not the one starting at bar_start.
C28_Alignment ==
    /\ bt_bar_time # None =>
          /\ bt_bar_time[1] % BtWidth = 0
          /\ bt_bar_time[1] <= bt_tick_time
          /\ bt_tick_time < bt_bar_time[1] + BtWidth
    /\ bt_prev_bar_time # None =>
          /\ bt_tick_time = bt_prev_bar_time[1] + BtWidth
          /\ bt_bar_time = Some(bt_prev_bar_time[1] + BtWidth)

\* The last instant of an hour bar got that bar, and the tick exactly one
\* hour after the bar's start got the next bar.
C28_Witness ==
    /\ bt_timeframe = "1H"
    /\ bt_prev_bar_time = Some(3600000)
    /\ bt_tick_time = 7200000
    /\ bt_bar_time = Some(7200000)

\* ---------------------------------------------------------------------
\* calculate_hedge_ratio (src/analytics/hedge_ratio.py)
\* ---------------------------------------------------------------------

\* `if len(df) < 10` (hedge_ratio.py:50).
MinObservations == 10

\* The series of a call are at most this much longer than MinObservations.
MaxExtraObservations == 1

\* The shapes a series is drawn from: every value the same and nonzero,
\* every value zero, a ramp, and an alternation of two values.
SeriesPatterns == {"constant", "zero", "ramp", "alternating"}

PatternValue(pattern, i) ==
    CASE pattern = "constant"    -> 5
      [] pattern = "zero"        -> 0
      [] pattern = "ramp"        -> i
      [] pattern = "alternating" -> i % 2

\* A pandas Series of length n: NaN at the positions of nulls.
SeriesOf(pattern, n, nulls) ==
    [i \in 1..n |-> IF i \in nulls THEN NotANumber
                    ELSE Num(PatternValue(pattern, i))]

\* pd.DataFrame({"y": y, "x": x}).dropna(): the rows where both are
\* numbers, in order.
RECURSIVE DropNa(_, _, _)
DropNa(y, x, i) ==
    IF i > Len(y) THEN <<>>
    ELSE IF y[i].ok /\ x[i].ok
         THEN <<[y |-> y[i].val, x |-> x[i].val]>> \o DropNa(y, x, i + 1)
         ELSE DropNa(y, x, i + 1)

\* Sums over the clean rows.
SumX(df)  == LET s[i \in 0..Len(df)] ==
                     IF i = 0 THEN 0 ELSE s[i - 1] + df[i].x
             IN  s[Len(df)]
SumY(df)  == LET s[i \in 0..Len(df)] ==
                     IF i = 0 THEN 0 ELSE s[i - 1] + df[i].y
             IN  s[Len(df)]
SumXX(df) == LET s[i \in 0..Len(df)] ==
                     IF i = 0 THEN 0 ELSE s[i - 1] + df[i].x * df[i].x
             IN  s[Len(df)]
SumYY(df) == LET s[i \in 0..Len(df)] ==
                     IF i = 0 THEN 0 ELSE s[i - 1] + df[i].y * df[i].y
             IN  s[Len(df)]
SumXY(df) == LET s[i \in 0..Len(df)] ==
                     IF i = 0 THEN 0 ELSE s[i - 1] + df[i].x * df[i].y
             IN  s[Len(df)]

\* np.sum((x - mean(x)) ** 2), np.sum((y - mean(y)) ** 2) and
\* np.sum((x - mean(x)) * (y - mean(y))), each multiplied by n so that it
\* stays an integer: n * sum(x^2) - sum(x)^2 and so on.
Denominator(df) == Len(df) * SumXX(df) - SumX(df) * SumX(df)
SsTot(df)       == Len(df) * SumYY(df) - SumY(df) * SumY(df)
Numerator(df)   == Len(df) * SumXY(df) - SumX(df) * SumY(df)

\* An r_squared: a fraction, or the nan of a division of zero by zero.
Fraction(num, den) == [finite |-> TRUE, num |-> num, den |-> den]
NotFinite          == [finite |-> FALSE, num |-> 0, den |-> 1]
IsZero(r)          == r.finite /\ r.num = 0

\* What a call does.
ReturnsNone       == [kind |-> "none", r_squared |-> NotFinite]
Raises            == [kind |-> "raises", r_squared |-> NotFinite]
ReturnsResult(r2) == [kind |-> "result", r_squared |-> r2]

\* 1 - ss_res / ss_tot of the least-squares line, which is
\* numerator^2 / (denominator * ss_tot).
RSquaredOfFit(df) ==
    Fraction(Numerator(df) * Numerator(df), Denominator(df) * SsTot(df))

\* The statsmodels branch.  add_constant leaves a design that already
\* holds a nonzero constant column as it is, so the fit has one
\* parameter and results.params[1] raises IndexError, which the
\* `except ImportError` does not catch.  A design of zeros gets its
\* constant column, is fitted by the pseudo-inverse with a slope of 0
\* and a result is returned.  results.rsquared is
\* 1 - ssr / centered_tss, nan when centered_tss is 0.
StatsmodelsFit(df) ==
    LET x_is_const == \A i \in 1..Len(df) : df[i].x = df[1].x
        x_nonzero  == \A i \in 1..Len(df) : df[i].x # 0
    IN  IF x_is_const /\ x_nonzero THEN Raises
        ELSE IF SsTot(df) = 0 THEN ReturnsResult(NotFinite)
        ELSE IF Denominator(df) = 0 THEN ReturnsResult(Fraction(0, 1))
        ELSE ReturnsResult(RSquaredOfFit(df))

\* The numpy fallback.
NumpyFit(df) ==
    IF Denominator(df) = 0 THEN ReturnsNone
    ELSE IF SsTot(df) = 0 THEN ReturnsResult(Fraction(0, 1))
    ELSE ReturnsResult(RSquaredOfFit(df))

\* calculate_hedge_ratio(y, x, use_statsmodels); installed tells whether
\* `import statsmodels.api` succeeds where the program runs.
CalculateHedgeRatio(y, x, use_statsmodels, installed) ==
    LET df == DropNa(y, x, 1)
    IN  IF Len(df) < MinObservations THEN ReturnsNone
        ELSE IF use_statsmodels /\ installed THEN StatsmodelsFit(df)
        ELSE NumpyFit(df)

\* The calls of the specification: series of a length around
\* MinObservations, with NaN at none, one or two positions.
HedgeLengths ==
    (MinObservations - 1)..(MinObservations + MaxExtraObservations)
HedgeCalls ==
    { [fn |-> "calculate_hedge_ratio",
       y |-> SeriesOf(py, n, ny), x |-> SeriesOf(px, n, nx),
       use_statsmodels |-> u, installed |-> inst] :
        py \in SeriesPatterns, px \in SeriesPatterns, n \in HedgeLengths,
        ny \in {{}, {2}}, nx \in {{}, {1}, {1, 2}},
        u \in BOOLEAN, inst \in BOOLEAN }

AnOthersUnchanged ==
    UNCHANGED <<alertVars, s4Vars, rsVars, storeVars, extNotAn>>

\* A caller chooses the arguments of the next call.
HedgeChoose ==
    /\ an_call.fn = "none"
    /\ an_call' \in HedgeCalls
    /\ an_result' = None
    /\ AnOthersUnchanged

\* The call runs.
HedgeCall ==
    /\ an_call.fn = "calculate_hedge_ratio"
    /\ an_result = None
    /\ an_result' = Some(CalculateHedgeRatio(an_call.y, an_call.x,
                             an_call.use_statsmodels, an_call.installed))
    /\ UNCHANGED an_call
    /\ AnOthersUnchanged

InitHedge ==
    AlertInit /\ S4Idle /\ ResamplerInit /\ StoreIdle /\ ExtIdle
NextHedge == HedgeChoose \/ HedgeCall
SpecHedge == InitHedge /\ [][NextHedge]_vars

\* C29: calculate_hedge_ratio never raises; it returns no result when
\* fewer than MinObservations paired non-null observations remain,
\* returns no result when sum((x - mean(x))^2) is 0, and otherwise
\* returns a result whose r_squared is 0 when sum((y - mean(y))^2) is 0.
C29_NeverRaises ==
    (an_call.fn = "calculate_hedge_ratio" /\ an_result # None) =>
        LET df == DropNa(an_call.y, an_call.x, 1)
            r  == an_result[1]
        IN  /\ r.kind # "raises"
            /\ Len(df) < MinObservations => r.kind = "none"
            /\ (Len(df) >= MinObservations /\ Denominator(df) = 0)
                   => r.kind = "none"
            /\ (Len(df) >= MinObservations /\ Denominator(df) # 0)
                   => /\ r.kind = "result"
                      /\ SsTot(df) = 0 => IsZero(r.r_squared)

\* The same, where statsmodels is not installed and the numpy fallback
\* runs.
C29_FallbackOnly ==
    (an_call.fn = "calculate_hedge_ratio" /\ an_result # None
        /\ ~(an_call.use_statsmodels /\ an_call.installed)) =>
        LET df == DropNa(an_call.y, an_call.x, 1)
            r  == an_result[1]
        IN  /\ r.kind # "raises"
            /\ Len(df) < MinObservations => r.kind = "none"
            /\ (Len(df) >= MinObservations /\ Denominator(df) = 0)
                   => r.kind = "none"
            /\ (Len(df) >= MinObservations /\ Denominator(df) # 0)
                   => /\ r.kind = "result"
                      /\ SsTot(df) = 0 => IsZero(r.r_squared)

\* ---------------------------------------------------------------------
\* calculate_zscore (src/analytics/zscore.py)
\* ---------------------------------------------------------------------

\* The windows and the series lengths of the calls.
MaxWindow == 4
MaxZLen   == 4

\* Scenario S3: a spread constant at 5.0, window 20.
S3Scenario == [value |-> 5, window |-> 20, length |-> 25]

\* `min_periods = max(2, window // 2)` (zscore.py:33-34).
MinPeriods(window) == IF window \div 2 > 2 THEN window \div 2 ELSE 2

\* The indexes of the trailing window of index i that hold a number.
WindowObservations(series, i, window) ==
    { k \in 1..i : k > i - window /\ series[k].ok }

RECURSIVE SumOver(_, _)
SumOver(series, idx) ==
    IF idx = {} THEN 0
    ELSE LET k == CHOOSE e \in idx : TRUE
         IN  series[k].val + SumOver(series, idx \ {k})

RECURSIVE SumSquaresOver(_, _)
SumSquaresOver(series, idx) ==
    IF idx = {} THEN 0
    ELSE LET k == CHOOSE e \in idx : TRUE
         IN  series[k].val * series[k].val
                 + SumSquaresOver(series, idx \ {k})

\* Whether rolling(...).mean() and rolling(...).std() are numbers at
\* index i: the window holds min_periods observations or more.
RollingDefined(series, i, window) ==
    Cardinality(WindowObservations(series, i, window))
        >= MinPeriods(window)

\* The rolling variance at index i multiplied by n * (n - 1), n the
\* number of observations of the window: n * sum(v^2) - sum(v)^2.
RollingVariance(series, i, window) ==
    LET idx == WindowObservations(series, i, window)
    IN  Cardinality(idx) * SumSquaresOver(series, idx)
            - SumOver(series, idx) * SumOver(series, idx)

\* A finite z: (dev / n) / sqrt(var / (n * (n - 1))).
ZValue(dev, var, n) == [ok |-> TRUE, dev |-> dev, var |-> var, n |-> n]
ZNull               == [ok |-> FALSE, dev |-> 0, var |-> 0, n |-> 0]

\* (series - rolling_mean) / rolling_std at index i, the standard
\* deviation of 0 replaced by NaN: NaN when any of the three is NaN.
ZscoreAt(series, i, window) ==
    LET idx == WindowObservations(series, i, window)
        n   == Cardinality(idx)
    IN  IF ~series[i].ok THEN ZNull
        ELSE IF ~RollingDefined(series, i, window) THEN ZNull
        ELSE IF RollingVariance(series, i, window) = 0 THEN ZNull
        ELSE ZValue(n * series[i].val - SumOver(series, idx),
                    RollingVariance(series, i, window), n)

\* calculate_zscore(series, window), min_periods left to its default.
\* series.rolling(window=window, min_periods=min_periods) raises
\* ValueError when min_periods is larger than the window.
CalculateZscore(series, window) ==
    IF Len(series) < 2 THEN [kind |-> "series", values |-> <<>>]
    ELSE IF MinPeriods(window) > window
         THEN [kind |-> "raises", values |-> <<>>]
    ELSE [kind |-> "series",
          values |-> [i \in 1..Len(series) |->
                          ZscoreAt(series, i, window)]]

\* The series of the calls: up to MaxZLen values out of two numbers and
\* NaN.
ZSeries ==
    UNION { [1..n -> {Num(5), Num(7), NotANumber}] : n \in 0..MaxZLen }
ZscoreCalls ==
    { [fn |-> "calculate_zscore", series |-> s, window |-> w] :
          s \in ZSeries, w \in 1..MaxWindow }
    \cup { [fn |-> "calculate_zscore",
            series |-> [i \in 1..S3Scenario.length |->
                            Num(S3Scenario.value)],
            window |-> S3Scenario.window] }

\* A caller chooses the arguments of the next call.
ZscoreChoose ==
    /\ an_call.fn = "none"
    /\ an_call' \in ZscoreCalls
    /\ an_result' = None
    /\ AnOthersUnchanged

\* The call runs.
ZscoreCall ==
    /\ an_call.fn = "calculate_zscore"
    /\ an_result = None
    /\ an_result' = Some(CalculateZscore(an_call.series, an_call.window))
    /\ UNCHANGED an_call
    /\ AnOthersUnchanged

InitZscore ==
    AlertInit /\ S4Idle /\ ResamplerInit /\ StoreIdle /\ ExtIdle
NextZscore == ZscoreChoose \/ ZscoreCall
SpecZscore == InitZscore /\ [][NextZscore]_vars

ZscoreReturned == an_call.fn = "calculate_zscore" /\ an_result # None

\* The constant series of scenario S3.
IsConstantSeries(series) ==
    \A i \in 1..Len(series) : series[i].ok /\ series[i].val = series[1].val

\* C30: calculate_zscore with window w yields null at every index whose
\* trailing window holds fewer than max(2, w div 2) observations and at
\* every index whose rolling standard deviation is 0, and a finite value
\* elsewhere; a constant series yields null at every index.
C30_NullOrFinite ==
    ZscoreReturned =>
        LET series == an_call.series
            w      == an_call.window
            r      == an_result[1]
        IN  /\ r.kind = "series"
            /\ Len(series) >= 2 => Len(r.values) = Len(series)
            /\ \A i \in 1..Len(r.values) :
                   r.values[i].ok <=>
                       /\ RollingDefined(series, i, w)
                       /\ RollingVariance(series, i, w) # 0
            /\ IsConstantSeries(series) =>
                   \A i \in 1..Len(r.values) : ~r.values[i].ok

\* What the code does instead: a window below 2 raises for every series
\* of two values or more, and the result is also null at every index
\* where the series itself is null.
C30_AsCoded ==
    ZscoreReturned =>
        LET series == an_call.series
            w      == an_call.window
            r      == an_result[1]
        IN  IF Len(series) >= 2 /\ w < 2 THEN r.kind = "raises"
            ELSE /\ r.kind = "series"
                 /\ Len(series) >= 2 => Len(r.values) = Len(series)
                 /\ \A i \in 1..Len(r.values) :
                        r.values[i].ok <=>
                            /\ series[i].ok
                            /\ RollingDefined(series, i, w)
                            /\ RollingVariance(series, i, w) # 0
                 /\ IsConstantSeries(series) =>
                        \A i \in 1..Len(r.values) : ~r.values[i].ok

\* Scenario S3 has been computed, with its 25 indexes.
C30_S3Reached ==
    /\ ZscoreReturned
    /\ an_call.window = S3Scenario.window
    /\ an_result[1].kind = "series"
    /\ Len(an_result[1].values) = S3Scenario.length
    /\ \A i \in 1..S3Scenario.length : ~an_result[1].values[i].ok

\* ---------------------------------------------------------------------
\* adf_test (src/analytics/stationarity.py)
\* ---------------------------------------------------------------------

\* `len(series) < 20` (stationarity.py:63, 68).
MinAdfObservations == 20

\* `significance_level: float = 0.05` (stationarity.py:44), in
\* thousandths.
SignificanceLevel == 50

\* The series of a call are at most this much longer than
\* MinAdfObservations, and adfuller selects a lag up to MaxUsedLag.
MaxExtraAdf == 1
MaxUsedLag  == 2

\* series.dropna(): the positions that hold a number, renumbered.
RECURSIVE DropNaSeries(_, _)
DropNaSeries(series, i) ==
    IF i > Len(series) THEN <<>>
    ELSE IF series[i].ok THEN <<series[i]>> \o DropNaSeries(series, i + 1)
         ELSE DropNaSeries(series, i + 1)

\* The largest r with r * r <= x.
Isqrt(x) == CHOOSE r \in 0..10000 : r * r <= x /\ x < (r + 1) * (r + 1)

\* Series.var() (ddof = 1) and Series.mean() over the positions idx, in
\* thousandths.
VarOf(series, idx) ==
    LET n == Cardinality(idx)
    IN  (1000 * (n * SumSquaresOver(series, idx)
                    - SumOver(series, idx) * SumOver(series, idx)))
            \div (n * (n - 1))
MeanOf(series, idx) == (1000 * SumOver(series, idx)) \div Cardinality(idx)
Abs(v) == IF v < 0 THEN 0 - v ELSE v

\* The fields of ADFResult (stationarity.py:14-19), and a value of each
\* kind for a call that returns no result.
ADFResult(statistic, p, lag, n, critical, stationary) ==
    [kind |-> "result", test_statistic |-> statistic, p_value |-> p,
     used_lag |-> lag, n_obs |-> n, critical_values |-> critical,
     is_stationary |-> stationary]
NoADFResult ==
    [kind |-> "none", test_statistic |-> 0, p_value |-> 0, used_lag |-> 0,
     n_obs |-> 0, critical_values |-> <<0, 0, 0>>, is_stationary |-> FALSE]

\* _simple_stationarity_check(series, significance_level): thousandths
\* for test_statistic and p_value, hundred-thousandths for the critical
\* values at 1 %, 5 % and 10 %.  The 1e-10 added to the divisors only
\* matters where the divisor is 0: 0 / 1e-10 is 0, anything else over
\* 1e-10 is beyond every threshold.
SimpleStationarityCheck(series) ==
    LET n         == Len(series)
        half      == n \div 2
        first     == 1..half
        second    == (half + 1)..n
        var1      == VarOf(series, first)
        var2      == VarOf(series, second)
        mean1     == MeanOf(series, first)
        mean2     == MeanOf(series, second)
        std       == Isqrt(1000 * VarOf(series, 1..n))
        hi        == IF var1 > var2 THEN var1 ELSE var2
        lo        == IF var1 > var2 THEN var2 ELSE var1
        unbounded == (lo = 0 /\ hi # 0) \/ (std = 0 /\ mean1 # mean2)
        mean_diff == IF std = 0 THEN 0
                     ELSE (1000 * Abs(mean1 - mean2)) \div std
        var_ratio == IF lo = 0 THEN 0 ELSE (1000 * hi) \div lo
        raw       == (var_ratio - 1000) \div 10 + mean_diff \div 5
        p_value   == IF unbounded \/ raw > 1000 THEN 1000 ELSE raw
    IN  ADFResult(IF unbounded THEN 0
                  ELSE 0 - (1000000 \div (var_ratio + 100)),
                  p_value, 1, n, <<-343000, -286000, -257000>>,
                  p_value < SignificanceLevel)

\* The critical values adfuller reports for regression "c" with n_obs
\* observations (MacKinnon's response surface), in hundred-thousandths.
MacKinnonCritical(n_obs) ==
    << -343035 - 653930 \div n_obs - 1678600 \div (n_obs * n_obs),
       -286154 - 289030 \div n_obs - 423400 \div (n_obs * n_obs),
       -256677 - 153840 \div n_obs - 280900 \div (n_obs * n_obs) >>

\* What adfuller can return for a series of n values: a statistic, a
\* p-value and the lag chosen by AIC; n_obs is n - used_lag - 1.
AdfullerResults(n) ==
    { ADFResult(t, p, lag, n - lag - 1, MacKinnonCritical(n - lag - 1),
                p < SignificanceLevel) :
          t \in {-4000, -1000}, p \in {10, 500}, lag \in 0..MaxUsedLag }

\* adf_test(series) with the default arguments.  installed tells
\* whether `from statsmodels.tsa.stattools import adfuller` succeeds;
\* adfuller raising anything else gives no result.
AdfTestOutcomes(series, installed) ==
    IF Len(series) < MinAdfObservations THEN {NoADFResult}
    ELSE LET clean == DropNaSeries(series, 1)
         IN  IF Len(clean) < MinAdfObservations THEN {NoADFResult}
             ELSE IF installed
                  THEN AdfullerResults(Len(clean)) \cup {NoADFResult}
                  ELSE {SimpleStationarityCheck(clean)}

\* The series of the calls.
AdfPatternValue(pattern, i, n) ==
    CASE pattern = "constant"    -> 5
      [] pattern = "ramp"        -> i
      [] pattern = "alternating" -> i % 2
      [] pattern = "settling"    -> IF 2 * i <= n THEN i % 3 ELSE i % 2
AdfLengths ==
    (MinAdfObservations - 1)..(MinAdfObservations + MaxExtraAdf)
AdfCalls ==
    { [fn |-> "adf_test",
       series |-> [i \in 1..n |->
                       IF i \in nulls THEN NotANumber
                       ELSE Num(AdfPatternValue(pattern, i, n))],
       installed |-> inst] :
          pattern \in {"constant", "ramp", "alternating", "settling"},
          n \in AdfLengths, nulls \in {{}, {1}, {3, 4}},
          inst \in BOOLEAN }

\* A caller chooses the arguments of the next call.
AdfChoose ==
    /\ an_call.fn = "none"
    /\ an_call' \in AdfCalls
    /\ an_result' = None
    /\ AnOthersUnchanged

\* The call runs.
AdfCall ==
    /\ an_call.fn = "adf_test"
    /\ an_result = None
    /\ \E r \in AdfTestOutcomes(an_call.series, an_call.installed) :
           an_result' = Some(r)
    /\ UNCHANGED an_call
    /\ AnOthersUnchanged

InitAdf == AlertInit /\ S4Idle /\ ResamplerInit /\ StoreIdle /\ ExtIdle
NextAdf == AdfChoose \/ AdfCall
SpecAdf == InitAdf /\ [][NextAdf]_vars

\* The call fell back to the heuristic and returned its result.
FellBack ==
    /\ an_call.fn = "adf_test"
    /\ ~an_call.installed
    /\ an_result # None
    /\ an_result[1].kind = "result"

\* Every result the full routine returns for the series of the calls.
FullResults == UNION { AdfullerResults(n) : n \in AdfLengths }

\* The fields of ADFResult that are not numbers: the ones that can
\* hold a label.
LabelFields == {"is_stationary"}

\* C31: a result of the two-halves heuristic is marked as coming from
\* the fallback: a label of the result tells it from every result of
\* the full ADF routine.
C31_FallbackMarked ==
    FellBack =>
        \E f \in LabelFields :
            \A full \in FullResults : an_result[1][f] # full[f]

\* The result of the heuristic differs from the results of the full
\* routine in its numbers only: each of its labels has a value that a
\* result of the full routine has too, while its critical values are
\* the rounded asymptotic ones, which the full routine does not report.
C31_NumbersOnly ==
    FellBack =>
        /\ \A f \in LabelFields :
               \E full \in FullResults : an_result[1][f] = full[f]
        /\ \A full \in FullResults :
               an_result[1].critical_values # full.critical_values

\* Both verdicts of the heuristic occur.
C31_FallbackStationary    == FellBack /\ an_result[1].is_stationary
C31_FallbackNotStationary == FellBack /\ ~an_result[1].is_stationary

-----------------------------------------------------------------------------
(* The resampler fed with ticks of two symbols, three intervals and
   several prices and quantities *)

MaxBarTicks == 3

\* Tick times in ms: two in second 0, one in second 1, one in second 2.
BarTimes == {400, 900, 1200, 2100}

\* Prices with their quantities.
BarTrades ==
    { [price |-> 100, quantity |-> 1], [price |-> 101, quantity |-> 2],
      [price |-> 99, quantity |-> 0] }
BarTicks ==
    { Tick(sym, t, tr.price, tr.quantity) :
          sym \in PipelineSymbols, t \in BarTimes, tr \in BarTrades }

\* resampler.add_tick(tick)
BarsAddTick ==
    /\ Len(fed) < MaxBarTicks
    /\ \E tick \in BarTicks : ResamplerAddTick(tick)
    /\ UNCHANGED <<alertVars, s4Vars, storeVars, extVars>>

InitBars == ResamplerInit /\ AlertIdle /\ S4Idle /\ StoreIdle /\ ExtIdle
NextBars == BarsAddTick
SpecBars == InitBars /\ [][NextBars]_vars

\* The ticks of the symbol among the first i of the sequence that were
\* added since the symbol's previous rollover, the tick that rolled over
\* included, and the interval they were added to.
SinceRollover(ticks, symbol) ==
    LET seg[i \in 0..Len(ticks)] ==
            IF i = 0 THEN [known |-> FALSE, interval |-> 0, ticks |-> <<>>]
            ELSE IF ticks[i].symbol # symbol THEN seg[i - 1]
            ELSE IF ~seg[i - 1].known
                       \/ Align(ticks[i].timestamp) > seg[i - 1].interval
                 THEN [known |-> TRUE,
                       interval |-> Align(ticks[i].timestamp),
                       ticks |-> <<ticks[i]>>]
                 ELSE [seg[i - 1] EXCEPT !.ticks = Append(@, ticks[i])]
    IN  seg[Len(ticks)]

SumQuantities(ticks) ==
    LET s[i \in 0..Len(ticks)] ==
            IF i = 0 THEN 0 ELSE s[i - 1] + ticks[i].quantity
    IN  s[Len(ticks)]
SumNotional(ticks) ==
    LET s[i \in 0..Len(ticks)] ==
            IF i = 0 THEN 0
            ELSE s[i - 1] + ticks[i].price * ticks[i].quantity
    IN  s[Len(ticks)]

\* The bar that aggregates the ticks, labelled with the interval.
AggregateOf(symbol, interval, ticks) ==
    LET prices == { ticks[i].price : i \in 1..Len(ticks) }
        volume == SumQuantities(ticks)
        close  == ticks[Len(ticks)].price
    IN  [symbol |-> symbol, timestamp |-> interval,
         open |-> ticks[1].price,
         high |-> CHOOSE p \in prices : \A q \in prices : q <= p,
         low |-> CHOOSE p \in prices : \A q \in prices : q >= p,
         close |-> close, volume |-> volume,
         vwap |-> IF volume = 0 THEN [num |-> close, den |-> 1]
                  ELSE [num |-> SumNotional(ticks), den |-> volume],
         trade_count |-> Len(ticks)]

\* The add_tick call of this step got a tick of a known symbol whose
\* aligned bar time is later than current_bar_time of the symbol.
RolloverStep ==
    /\ FedStep
    /\ LET tick == fed'[Len(fed')]
       IN  /\ tick.symbol \in DOMAIN current_bar_time
           /\ Align(tick.timestamp) > current_bar_time[tick.symbol]

\* C32: a tick T of symbol s with align(T) > current_bar_time[s] emits
\* exactly one bar, labelled with the old current_bar_time[s], that
\* aggregates exactly the ticks added since the previous rollover (open
\* the first price, close the last, high and low the extrema, volume
\* the sum of the quantities, vwap the notional over the volume or the
\* close when the volume is 0, trade_count the number of ticks); then
\* current_bar_time[s] is align(T) and the builder holds T alone.
C32_Rollover ==
    [][RolloverStep =>
        LET tick == fed'[Len(fed')]
            s    == tick.symbol
            bar  == AggregateOf(s, current_bar_time[s],
                                SinceRollover(fed, s).ticks)
        IN  /\ last_bar' = Some(bar)
            /\ completed_bars'[s] =
                   Append(CompletedOf(completed_bars, s), bar)
            /\ \A o \in DOMAIN completed_bars \ {s} :
                   completed_bars'[o] = completed_bars[o]
            /\ current_bar_time'[s] = Align(tick.timestamp)
            /\ builders'[s] = BuilderAddTick(NewBarBuilder(s), tick)
    ]_vars

\* The example: (100, 1) and (101, 2) in second 0, then a tick in second
\* 1, have emitted the bar of second 0 with open 100, high 101, low 100,
\* close 101, volume 3, vwap 302/3 and trade_count 2.
C32_Witness ==
    /\ Len(fed) = 3
    /\ fed[1] = Tick("BTC", 400, 100, 1)
    /\ fed[2] = Tick("BTC", 900, 101, 2)
    /\ Align(fed[3].timestamp) = 1000
    /\ fed[3].symbol = "BTC"
    /\ last_bar = Some([symbol |-> "BTC", timestamp |-> 0, open |-> 100,
                        high |-> 101, low |-> 100, close |-> 101,
                        volume |-> 3, vwap |-> [num |-> 302, den |-> 3],
                        trade_count |-> 2])
    /\ completed_bars["BTC"] = <<last_bar[1]>>
    /\ current_bar_time["BTC"] = 1000
    /\ builders["BTC"].trade_count = 1

\* The ticks of the symbol in the sequence, in order.
TicksOf(ticks, symbol) == SelectSeq(ticks, LAMBDA t : t.symbol = symbol)

SumTradeCounts(bars) ==
    LET s[i \in 0..Len(bars)] ==
            IF i = 0 THEN 0 ELSE s[i - 1] + bars[i].trade_count
    IN  s[Len(bars)]
SumVolumes(bars) ==
    LET s[i \in 0..Len(bars)] ==
            IF i = 0 THEN 0 ELSE s[i - 1] + bars[i].volume
    IN  s[Len(bars)]

\* The completed list of the symbol, empty when there is none.
BarsOfSymbol(symbol) ==
    IF symbol \in DOMAIN completed_bars THEN completed_bars[symbol]
    ELSE <<>>

\* C39: tick conservation.  For every symbol the trade_count of its
\* completed bars plus that of its open builder is the number of ticks
\* fed for it, and the volume of its completed bars plus that of its
\* open builder is the sum of the quantities fed for it.
C39_Conservation ==
    \A symbol \in PipelineSymbols :
        LET ticks == TicksOf(fed, symbol)
            open  == IF symbol \in DOMAIN builders THEN builders[symbol]
                     ELSE NewBarBuilder(symbol)
        IN  /\ SumTradeCounts(BarsOfSymbol(symbol)) + open.trade_count
                   = Len(ticks)
            /\ SumVolumes(BarsOfSymbol(symbol)) + open.volume
                   = SumQuantities(ticks)

\* A bar has been completed and a late tick of its interval has been
\* folded into the open builder, which holds two ticks.
C39_Witness ==
    /\ Len(fed) = 3
    /\ BarsOfSymbol("BTC") # <<>>
    /\ builders["BTC"].trade_count = 2
    /\ builders["BTC"].volume = 3
    /\ Align(fed[3].timestamp) < current_bar_time["BTC"]

\* add_tick for each tick of the sequence on a new resampler: the
\* resampler afterwards and the bars it completed.
FeedAlone(ticks) ==
    LET f[i \in 0..Len(ticks)] ==
            IF i = 0
               THEN [rs |-> [builders |-> EmptyDict,
                             current_bar_time |-> EmptyDict],
                     completed |-> <<>>]
               ELSE LET r == ResamplerStep(f[i - 1].rs, ticks[i])
                    IN  [rs |-> [builders |-> r.builders,
                                 current_bar_time |-> r.current_bar_time],
                         completed |->
                             IF r.bar # None
                                THEN Append(f[i - 1].completed, r.bar[1])
                                ELSE f[i - 1].completed]
    IN  f[Len(ticks)]

\* The builder, current_bar_time and completed bars of the symbol are
\* those of a resampler fed with the symbol's ticks alone.
AsIfAlone(symbol) ==
    LET alone == FeedAlone(TicksOf(fed, symbol))
    IN  /\ BarsOfSymbol(symbol) = alone.completed
        /\ (symbol \in DOMAIN builders)
               = (symbol \in DOMAIN alone.rs.builders)
        /\ (symbol \in DOMAIN current_bar_time)
               = (symbol \in DOMAIN alone.rs.current_bar_time)
        /\ symbol \in DOMAIN builders =>
               /\ builders[symbol] = alone.rs.builders[symbol]
               /\ current_bar_time[symbol]
                      = alone.rs.current_bar_time[symbol]

\* add_tick for a tick of one symbol leaves every other symbol alone.
OthersUntouched ==
    FedStep =>
        \A other \in PipelineSymbols \ {fed'[Len(fed')].symbol} :
            /\ (other \in DOMAIN builders') = (other \in DOMAIN builders)
            /\ other \in DOMAIN builders =>
                   /\ builders'[other] = builders[other]
                   /\ current_bar_time'[other] = current_bar_time[other]
            /\ (other \in DOMAIN completed_bars')
                   = (other \in DOMAIN completed_bars)
            /\ other \in DOMAIN completed_bars =>
                   completed_bars'[other] = completed_bars[other]

\* C40: symbol isolation.  add_tick for a tick of symbol A leaves the
\* builder, current_bar_time and completed bars of every other symbol
\* unchanged, and the bars of each symbol of an interleaved stream are
\* the bars produced from that symbol's ticks alone.
C40_Isolation ==
    /\ [](\A symbol \in PipelineSymbols : AsIfAlone(symbol))
    /\ [][OthersUntouched]_vars

\* An ETH tick came between two BTC ticks, and the second BTC tick
\* completed a BTC bar.
C40_Witness ==
    /\ Len(fed) = 3
    /\ fed[1].symbol = "BTC" /\ fed[2].symbol = "ETH"
    /\ fed[3].symbol = "BTC"
    /\ Len(BarsOfSymbol("BTC")) = 1
    /\ BarsOfSymbol("ETH") = <<>>
    /\ builders["ETH"].trade_count = 1

-----------------------------------------------------------------------------
(* The resampler with callers that feed it, read its open bar and clear
   it *)

MaxSnapCalls == 3

SnapTicks ==
    { Tick(sym, t, tr.price, tr.quantity) :
          sym \in PipelineSymbols, t \in {400, 1200},
          tr \in { [price |-> 100, quantity |-> 1],
                   [price |-> 101, quantity |-> 2] } }

\* The symbols readers ask for: known ones in either case, and one that
\* never had a tick.
SnapSymbols == {"BTC", "eth", "XRP"}

\* TimeSeriesResampler.clear(symbol): symbol is None or a text.  The
\* completed bars are dropped and the builders reset; _current_bar_time
\* is not touched.
ResamplerClear(symbol) ==
    /\ IF symbol # None
          THEN /\ completed_bars' =
                      DictSet(completed_bars, Upper(symbol[1]), <<>>)
               /\ builders' =
                      [k \in DOMAIN builders |->
                          IF k = Upper(symbol[1])
                             THEN BuilderReset(builders[k])
                             ELSE builders[k]]
          ELSE /\ completed_bars' = EmptyDict
               /\ builders' =
                      [k \in DOMAIN builders |-> BuilderReset(builders[k])]
    /\ UNCHANGED <<current_bar_time, last_bar, fed>>

SnapCall(op, tick, symbol) == [op |-> op, tick |-> tick, symbol |-> symbol]

SnapOthersUnchanged ==
    UNCHANGED <<alertVars, s4Vars, storeVars, extNotSnap>>

\* resampler.add_tick(tick)
SnapAddTick ==
    /\ Len(snap_log) < MaxSnapCalls
    /\ \E tick \in SnapTicks :
           /\ ResamplerAddTick(tick)
           /\ snap_log' = Append(snap_log, SnapCall("add_tick", Some(tick),
                                                    None))
    /\ UNCHANGED snap_result
    /\ SnapOthersUnchanged

\* resampler.get_current_bar(symbol)
SnapGetCurrentBar ==
    /\ Len(snap_log) < MaxSnapCalls
    /\ \E symbol \in SnapSymbols :
           /\ snap_result' = GetCurrentBar(symbol)
           /\ snap_log' = Append(snap_log,
                                 SnapCall("get_current_bar", None,
                                          Some(symbol)))
    /\ UNCHANGED rsVars
    /\ SnapOthersUnchanged

\* resampler.clear() and resampler.clear(symbol)
SnapClear ==
    /\ Len(snap_log) < MaxSnapCalls
    /\ \E symbol \in {None} \cup {Some(sym) : sym \in SnapSymbols} :
           /\ ResamplerClear(symbol)
           /\ snap_log' = Append(snap_log, SnapCall("clear", None, symbol))
    /\ UNCHANGED snap_result
    /\ SnapOthersUnchanged

InitSnapshot ==
    ResamplerInit /\ AlertIdle /\ S4Idle /\ StoreIdle /\ ExtIdle
NextSnapshot == SnapAddTick \/ SnapGetCurrentBar \/ SnapClear
SpecSnapshot == InitSnapshot /\ [][NextSnapshot]_vars

\* The calls of the log on a resampler given as a value, get_current_bar
\* left out: the builders, current_bar_time and completed bars afterwards.
WithoutReads(log) ==
    LET f[i \in 0..Len(log)] ==
            IF i = 0
               THEN [builders |-> EmptyDict, current_bar_time |-> EmptyDict,
                     completed_bars |-> EmptyDict]
            ELSE IF log[i].op = "add_tick"
               THEN LET r == ResamplerStep(f[i - 1], log[i].tick[1])
                        sym == log[i].tick[1].symbol
                        old == IF sym \in DOMAIN f[i - 1].completed_bars
                                  THEN f[i - 1].completed_bars[sym]
                                  ELSE <<>>
                    IN  [builders |-> r.builders,
                         current_bar_time |-> r.current_bar_time,
                         completed_bars |->
                             IF r.bar # None
                                THEN DictSet(f[i - 1].completed_bars, sym,
                                             Append(old, r.bar[1]))
                                ELSE f[i - 1].completed_bars]
            ELSE IF log[i].op = "clear"
               THEN [builders |->
                         [k \in DOMAIN f[i - 1].builders |->
                             IF log[i].symbol = None
                                   \/ log[i].symbol = Some(k)
                                   \/ Upper(log[i].symbol[1]) = k
                                THEN NewBarBuilder(k)
                                ELSE f[i - 1].builders[k]],
                     current_bar_time |-> f[i - 1].current_bar_time,
                     completed_bars |->
                         IF log[i].symbol = None THEN EmptyDict
                         ELSE DictSet(f[i - 1].completed_bars,
                                      Upper(log[i].symbol[1]), <<>>)]
            ELSE f[i - 1]
    IN  f[Len(log)]

\* The step is a get_current_bar call; SnapAsked is its symbol.
SnapReadStep ==
    /\ Len(snap_log') = Len(snap_log) + 1
    /\ snap_log'[Len(snap_log')].op = "get_current_bar"
SnapAsked(log) == Upper(log[Len(log)].symbol[1])

\* The partial bar of the open interval of the symbol: what the builder
\* has accumulated, labelled with current_bar_time.
PartialBar(symbol) ==
    LET b == builders[symbol]
    IN  [symbol |-> symbol, timestamp |-> current_bar_time[symbol],
         open |-> b.open, high |-> b.high, low |-> b.low,
         close |-> b.close, volume |-> b.volume,
         vwap |-> IF b.volume > 0
                     THEN [num |-> b.vwap_numerator, den |-> b.volume]
                     ELSE [num |-> b.close, den |-> 1],
         trade_count |-> b.trade_count]

\* C34: get_current_bar is a pure snapshot.  It returns the partial bar
\* of the open interval labelled with current_bar_time, or nothing when
\* the builder is empty or the symbol unknown, and leaves the builder,
\* current_bar_time and the completed list unchanged; two consecutive
\* calls return equal bars, and the resampler is at all times in the
\* state it would be in had get_current_bar never been called.
C34_PureSnapshot ==
    /\ [][SnapReadStep =>
            LET symbol == SnapAsked(snap_log')
            IN  /\ UNCHANGED <<builders, current_bar_time, completed_bars>>
                /\ snap_result' =
                       IF symbol \in DOMAIN builders
                             /\ builders[symbol].trade_count > 0
                          THEN Some(PartialBar(symbol))
                          ELSE None
                /\ (/\ snap_log # <<>>
                    /\ snap_log[Len(snap_log)].op = "get_current_bar"
                    /\ SnapAsked(snap_log) = symbol)
                       => snap_result' = snap_result
       ]_vars
    /\ [](LET never == WithoutReads(snap_log)
          IN  /\ builders = never.builders
              /\ current_bar_time = never.current_bar_time
              /\ completed_bars = never.completed_bars)

\* A partial bar was read, and the tick after it completed the bar of
\* that interval, which is the bar that was read.
C34_Witness ==
    /\ Len(snap_log) = 3
    /\ snap_log[1].op = "add_tick"
    /\ snap_log[2].op = "get_current_bar"
    /\ snap_log[3].op = "add_tick"
    /\ snap_result # None
    /\ last_bar = snap_result
    /\ snap_result[1].timestamp = 0

\* A read of a symbol whose builder is empty after a clear, and of a
\* symbol that never had a tick, returned nothing.
C34_WitnessNothing ==
    /\ Len(snap_log) = 3
    /\ snap_log[2].op = "clear"
    /\ snap_log[3].op = "get_current_bar"
    /\ SnapAsked(snap_log) \in DOMAIN builders
    /\ snap_result = None

\* The position in the log of the last clear that covers the symbol: a
\* clear() or a clear of that symbol; 0 when there is none.
LastClearOf(log, symbol) ==
    LET covering == { i \in 1..Len(log) :
                         /\ log[i].op = "clear"
                         /\ \/ log[i].symbol = None
                            \/ Upper(log[i].symbol[1]) = symbol }
    IN  IF covering = {} THEN 0
        ELSE CHOOSE i \in covering : \A j \in covering : j <= i

\* The ticks of the symbol fed after position `from` of the log.
RECURSIVE TicksAfter(_, _, _)
TicksAfter(log, symbol, from) ==
    IF from >= Len(log) THEN <<>>
    ELSE (IF log[from + 1].op = "add_tick"
                /\ log[from + 1].tick[1].symbol = symbol
             THEN <<log[from + 1].tick[1]>> ELSE <<>>)
         \o TicksAfter(log, symbol, from + 1)

\* get_current_bar(symbol) on a resampler given as a value.
CurrentBarOf(rs, symbol) ==
    IF symbol \in DOMAIN rs.builders
          /\ symbol \in DOMAIN rs.current_bar_time
       THEN BuilderBuild(rs.builders[symbol], rs.current_bar_time[symbol])
       ELSE None

\* The symbol has been cleared, and since then the resampler has done
\* for it what a new resampler does with the ticks fed since.
LikeFresh(symbol) ==
    LET cleared_at == LastClearOf(snap_log, symbol)
        fresh      == FeedAlone(TicksAfter(snap_log, symbol, cleared_at))
    IN  cleared_at > 0 =>
            /\ BarsOfSymbol(symbol) = fresh.completed
            /\ CurrentBarOf([builders |-> builders,
                             current_bar_time |-> current_bar_time],
                            symbol)
                   = CurrentBarOf(fresh.rs, symbol)

\* C38: after clear(), or clear(symbol) for that symbol, the resampler
\* behaves like a new one: the ticks fed afterwards yield the same
\* completed bars and the same get_current_bar results as on a new
\* resampler of the same timeframe.
C38_LikeFresh == \A symbol \in PipelineSymbols : LikeFresh(symbol)

\* The same for the ticks that are not older than the interval that was
\* open when the resampler was cleared.
C38_NotOlder ==
    \A symbol \in PipelineSymbols :
        LET cleared_at == LastClearOf(snap_log, symbol)
            before     == WithoutReads(SubSeq(snap_log, 1, cleared_at))
            after      == TicksAfter(snap_log, symbol, cleared_at)
        IN  (/\ cleared_at > 0
             /\ symbol \in DOMAIN before.current_bar_time
                   => \A i \in 1..Len(after) :
                          Align(after[i].timestamp)
                              >= before.current_bar_time[symbol])
                => LikeFresh(symbol)

\* C36: in the live pipeline every bar completed by the resampler of a
\* timeframe is appended to the store's ring of (symbol, timeframe)
\* exactly once: the store's bar list equals the resampler's completed
\* list for the symbol.
C36_StoredOnce ==
    \A sym \in PipelineSymbols :
        GetBarsOf(data, sym, ResamplerTimeframe, None) = BarsOfSymbol(sym)

\* Every completed bar is in the store twice in a row, and nothing else
\* is.
C36_StoredTwice ==
    \A sym \in PipelineSymbols :
        LET stored == GetBarsOf(data, sym, ResamplerTimeframe, None)
            bars   == BarsOfSymbol(sym)
        IN  /\ Len(stored) = 2 * Len(bars)
            /\ \A i \in 1..Len(bars) :
                   stored[2 * i - 1] = bars[i] /\ stored[2 * i] = bars[i]

-----------------------------------------------------------------------------
(* check_zscore and check_custom of one AlertEngine with rules added by
   the caller, symbols and cooldown keys of several shapes *)

MaxChecksCalls == 2

\* add_rule: a rule that is not a z-score rule, and a z-score rule whose
\* name is a prefix of a default rule's name.
ExtraRules ==
    << [name |-> "spread_wide", alert_type |-> "spread_threshold",
        op |-> "gt", threshold |-> 10,
        message_template |-> "Spread is wide",
        severity |-> "info", cooldown_seconds |-> 60],
       [name |-> "zscore", alert_type |-> "zscore_high",
        op |-> "gt", threshold |-> 20,
        message_template |-> "Z-score is high",
        severity |-> "info", cooldown_seconds |-> 60] >>

\* AlertEngine(), and AlertEngine() followed by add_rule of ExtraRules.
ChecksInit ==
    /\ rules \in {DEFAULT_RULES, DEFAULT_RULES \o ExtraRules}
    /\ history = <<>>
    /\ max_history = DefaultMaxHistory
    /\ last_triggered = EmptyDict
    /\ triggered = <<>>
    /\ emitted = <<>>

ChecksZ       == {20, 35}
ChecksSymbols == {None, Some("all"), Some("high_all")}
ChecksTimes   == {0, 30, 60}

\* What condition(value) does in check_custom.
PredicateOutcomes == {"true", "false", "raises"}

\* AlertEngine.check_custom(value, condition, message, symbol=...,
\* cooldown_key=..., timestamp=...): outcome tells what condition(value)
\* does; the list `triggered` of the model holds the alert returned, if
\* any.
CheckCustomFor(value, outcome, symbol, cooldown_key, timestamp) ==
    LET keyed == cooldown_key # None /\ cooldown_key # Some("")
        alert == [timestamp |-> timestamp, alert_type |-> "custom",
                  message |-> <<"custom", value>>, severity |-> "warning",
                  value |-> value, symbol |-> symbol]
        n == NotifyAlert(eng_callbacks, 1, alert)
    IN  IF \/ outcome # "true"
           \/ /\ keyed
              /\ cooldown_key[1] \in DOMAIN last_triggered
              /\ timestamp - last_triggered[cooldown_key[1]] < DefaultCooldown
           THEN /\ triggered' = <<>>
                /\ UNCHANGED <<rules, history, max_history, last_triggered,
                               emitted, al_notified, al_since_clear>>
           ELSE /\ history' = DequeAppend(history, alert, max_history)
                /\ last_triggered' =
                      IF keyed
                         THEN DictSet(last_triggered, cooldown_key[1],
                                      timestamp)
                         ELSE last_triggered
                /\ al_notified' = al_notified \o n.log
                /\ al_since_clear' = Append(al_since_clear, alert)
                /\ triggered' = <<alert>>
                /\ emitted' = Append(emitted,
                      [rule |-> "custom", key |-> cooldown_key,
                       cooldown |-> DefaultCooldown, alert |-> alert])
                /\ UNCHANGED <<rules, max_history>>

ChecksOthersUnchanged ==
    UNCHANGED <<s4Vars, rsVars, storeVars, extNotAls>>

\* on_alert(callback): one subscriber, which returns.
ChecksOnAlert ==
    /\ eng_callbacks = <<>>
    /\ eng_calls = 0
    /\ eng_callbacks' = <<"returns">>
    /\ UNCHANGED <<eng_lock, eng_stack, eng_calls, alsVars, alertVars>>
    /\ ChecksOthersUnchanged

\* check_zscore(z, symbol, timestamp)
ChecksZscore ==
    /\ eng_calls < MaxChecksCalls
    /\ eng_calls' = eng_calls + 1
    /\ \E z \in ChecksZ, symbol \in ChecksSymbols, timestamp \in ChecksTimes :
          /\ CheckZscoreNotifying(z, symbol, timestamp)
          /\ al_last_call' = [op |-> "check_zscore", z |-> z,
                              symbol |-> symbol, timestamp |-> timestamp,
                              outcome |-> "true", key |-> None]
    /\ UNCHANGED <<eng_lock, eng_stack, eng_callbacks>>
    /\ ChecksOthersUnchanged

\* check_custom(value, condition, message, symbol=..., cooldown_key=...,
\* timestamp=...)
ChecksCustom ==
    /\ eng_calls < MaxChecksCalls
    /\ eng_calls' = eng_calls + 1
    /\ \E outcome \in PredicateOutcomes, symbol \in {None, Some("all")},
          key \in {None, Some("k")},
          timestamp \in ChecksTimes :
          /\ CheckCustomFor(7, outcome, symbol, key, timestamp)
          /\ al_last_call' = [op |-> "check_custom", z |-> 7,
                              symbol |-> symbol, timestamp |-> timestamp,
                              outcome |-> outcome, key |-> key]
    /\ UNCHANGED <<eng_lock, eng_stack, eng_callbacks>>
    /\ ChecksOthersUnchanged

InitChecks == ChecksInit /\ S4Idle /\ ResamplerInit /\ StoreIdle /\ ExtIdle
NextChecks == ChecksOnAlert \/ ChecksZscore \/ ChecksCustom
SpecChecks == InitChecks /\ [][NextChecks]_vars

\* The step is a call of the operation.
CheckStep(op) ==
    /\ eng_calls' = eng_calls + 1
    /\ al_last_call'.op = op

\* The predicate of the rule matches z.
Matches(rule, z) ==
    \/ rule.op = "gt" /\ z > rule.threshold
    \/ rule.op = "lt" /\ z < rule.threshold

\* The cooldown key of the rule for the symbol: the rule's name, "_", and
\* the symbol or "all".
KeyOf(rule, symbol) ==
    rule.name \o "_" \o (IF symbol = None THEN "all" ELSE symbol[1])

\* The z-score rule at position i is due for z, symbol and ts: its
\* predicate matches and its key has never fired or last fired at
\* least cooldown_seconds before ts.
Due(i, z, symbol, ts) ==
    /\ rules[i].alert_type \in {"zscore_high", "zscore_low"}
    /\ Matches(rules[i], z)
    /\ \/ KeyOf(rules[i], symbol) \notin DOMAIN last_triggered
       \/ ts - last_triggered[KeyOf(rules[i], symbol)]
              >= rules[i].cooldown_seconds

\* The positions of the list that are in the set, in order.
RECURSIVE Ascending(_, _, _)
Ascending(set, i, n) ==
    IF i > n THEN <<>>
    ELSE (IF i \in set THEN <<i>> ELSE <<>>) \o Ascending(set, i + 1, n)

\* C33: check_zscore returns, in insertion order of the rules, exactly
\* one alert for each z-score rule whose predicate matches z and whose
\* cooldown key never fired or last fired at least cooldown_seconds
\* before ts; each returned alert is appended to the history and sets
\* last_triggered[key] = ts; last_triggered of every rule that did not
\* fire is unchanged.
C33_CheckZscore ==
    [][CheckStep("check_zscore") =>
        LET z      == al_last_call'.z
            symbol == al_last_call'.symbol
            ts     == al_last_call'.timestamp
            due    == Ascending({i \in 1..Len(rules) : Due(i, z, symbol, ts)},
                              1, Len(rules))
            keys   == { KeyOf(rules[due[k]], symbol) : k \in 1..Len(due) }
        IN  /\ Len(triggered') = Len(due)
            /\ \A k \in 1..Len(due) :
                   /\ triggered'[k].alert_type = rules[due[k]].alert_type
                   /\ triggered'[k].severity = rules[due[k]].severity
                   /\ triggered'[k].message[1]
                          = rules[due[k]].message_template
                   /\ triggered'[k].value = z
                   /\ triggered'[k].symbol = symbol
                   /\ triggered'[k].timestamp = ts
            /\ history' = history \o triggered'
            /\ DOMAIN last_triggered' = DOMAIN last_triggered \cup keys
            /\ \A key \in DOMAIN last_triggered' :
                   last_triggered'[key] =
                       IF key \in keys THEN ts ELSE last_triggered[key]
    ]_vars

\* The example: z = 3.5 on a fresh engine returned WARNING then
\* CRITICAL, and 60 s later the same z has returned only the WARNING.
C33_Witness ==
    /\ rules = DEFAULT_RULES
    /\ al_last_call.op = "check_zscore"
    /\ al_last_call.z = 35
    /\ al_last_call.timestamp = 60
    /\ Len(history) = 3
    /\ history[1].severity = "warning" /\ history[1].timestamp = 0
    /\ history[2].severity = "critical" /\ history[2].timestamp = 0
    /\ history[1].value = 35 /\ history[2].value = 35
    /\ history[1].symbol = al_last_call.symbol
    /\ history[2].symbol = al_last_call.symbol
    /\ Len(triggered) = 1
    /\ triggered[1].severity = "warning"
    /\ triggered[1].timestamp = 60
    /\ last_triggered[KeyOf(DEFAULT_RULES[3], al_last_call.symbol)] = 0

\* The alerts check_custom has emitted, in order.
CustomEmitted == SelectSeq(emitted, LAMBDA e : e.rule = "custom")

\* Two alerts of check_custom belong to one value stream: same symbol
\* and same cooldown key, no key included.
SameStream(a, b) == a.alert.symbol = b.alert.symbol /\ a.key = b.key

\* Consecutive alerts of check_custom for one value stream, of the
\* streams in the set, are at least the default cooldown apart.
CustomSpaced(keys) ==
    LET ce == CustomEmitted
    IN  \A i \in 1..Len(ce), j \in 1..Len(ce) :
            (/\ i < j
             /\ ce[i].key \in keys
             /\ SameStream(ce[i], ce[j])
             /\ \A k \in (i + 1)..(j - 1) : ~SameStream(ce[i], ce[k]))
                => ce[j].alert.timestamp - ce[i].alert.timestamp
                       >= DefaultCooldown

\* A check_custom whose predicate is false or raises returns nothing and
\* leaves history, cooldown map and subscribers untouched.
CustomRejects ==
    (CheckStep("check_custom") /\ al_last_call'.outcome # "true") =>
        /\ triggered' = <<>>
        /\ UNCHANGED <<history, last_triggered, eng_callbacks, al_notified>>

\* C35: check_custom returns nothing and leaves history, cooldown map
\* and subscribers untouched when the predicate is false or raises; when
\* it holds, two consecutive alerts for the same value stream (same
\* symbol and same cooldown key, no key included) are at least
\* default_cooldown seconds apart.
C35_CheckCustom ==
    /\ [][CustomRejects]_vars
    /\ [](CustomSpaced({None, Some("k")}))

\* The same for the calls that pass a cooldown key.
C35_Keyed ==
    /\ [][CustomRejects]_vars
    /\ [](CustomSpaced({Some("k")}))

\* A subscriber is registered, a keyed alert has been emitted and
\* notified, and a call whose predicate raises has returned nothing.
C35_Reached ==
    /\ eng_callbacks # <<>>
    /\ Len(CustomEmitted) = 1
    /\ CustomEmitted[1].key = Some("k")
    /\ Len(al_notified) = 1
    /\ al_last_call.op = "check_custom"
    /\ al_last_call.outcome = "raises"
    /\ triggered = <<>>

\* The z-score rule at position i matched z in the call of this step
\* and no alert was returned for it.
Suppressed(i) ==
    /\ rules[i].alert_type \in {"zscore_high", "zscore_low"}
    /\ Matches(rules[i], al_last_call'.z)
    /\ \A k \in 1..Len(triggered') :
           triggered'[k].message[1] # rules[i].message_template

\* C37: cooldown state is kept per (rule, symbol) pair.  A matching
\* rule is suppressed for a symbol only by an alert emitted for the same
\* rule and the same symbol less than its cooldown ago, never by an
\* alert of a different pair; no symbol and the symbol "all" are
\* different, and so are names and symbols that contain "_".
C37_PerPair ==
    [][CheckStep("check_zscore") =>
        \A i \in 1..Len(rules) :
            Suppressed(i) =>
                \E k \in 1..Len(emitted) :
                    /\ emitted[k].rule = rules[i].name
                    /\ emitted[k].alert.symbol = al_last_call'.symbol
                    /\ al_last_call'.timestamp
                           - emitted[k].alert.timestamp
                           < rules[i].cooldown_seconds
    ]_vars

\* What the code keeps instead: cooldown state per key text.  A matching
\* rule is suppressed only by an alert emitted under the same key less
\* than its cooldown ago.
C37_PerKey ==
    [][CheckStep("check_zscore") =>
        \A i \in 1..Len(rules) :
            Suppressed(i) =>
                \E k \in 1..Len(emitted) :
                    /\ emitted[k].rule # "custom"
                    /\ emitted[k].key
                           = KeyOf(rules[i], al_last_call'.symbol)
                    /\ al_last_call'.timestamp
                           - emitted[k].alert.timestamp
                           < rules[i].cooldown_seconds
    ]_vars

====
